---- MODULE Spec2Model ----
(***************************************************************************)
(* Model of the Panorama viewer of src/3d_panorama.js (first module of    *)
(* the file, lines 17-966): constructor validation, makeError, destroy,   *)
(* draw, zoom, the animation loop, the mouse, touch, wheel and resize      *)
(* handlers, and the deferred steps the constructor leaves behind (the     *)
(* require() probe for jquery.mousewheel and the setTimeout callbacks).    *)
(* JavaScript handlers run to completion, so every action is one whole    *)
(* handler or one whole call made by the host page.                       *)
(* Angles are kept in hundredths of a degree, pointer coordinates in       *)
(* half pixels (0.1 degree per pixel is 5 hundredths per half pixel),      *)
(* times in milliseconds. The fov is a whole number of degrees, but in     *)
(* SpecSteps, where fov and fovMouseStep are IEEE 754 doubles.             *)
(* The image loads of the six faces end one by one (SpecTextures,          *)
(* SpecLoadFails, SpecLateLoads); SpecTeardown takes destroy() one         *)
(* statement at a time; SpecTwo has objects on two containers.             *)
(***************************************************************************)
EXTENDS Integers, Sequences, FiniteSets, TLC

\* ---------------------------------------------------------------- bounds
MaxSessions == 2
MaxDraws == 1
MaxLoops == 2
MaxDragSessions == 1
MaxTime == 60
MaxLon == 36000
MaxLat == 10000

\* ------------------------------------------------------------- constants
Sessions == 1..MaxSessions

Containers == {"c1", "c2"}

\* the element that the calls and the events of the page are about, but
\* where a specification says otherwise
Targets == {"c1"}

Selectors == Targets \cup {"nomatch"}

sides == <<"right", "left", "top", "bottom", "back", "front">>

SideSet == {sides[i] : i \in 1..Len(sides)}

StartLon == 9000

StartLat == 0

LonStep == 10

LonWrap == 36000

LatLimit == 8500

DefaultStartZoom == 0

DefaultMinFov == 10

DefaultMaxFov == 75

DefaultFovMouseStep == 2

DefaultFpsLimit == 30

\* (clientX difference) * 0.1 degree, per half pixel
DragStep == 5

\* the value of a field that is undefined (lastAnimationUpdate)
Undefined == -1

\* ---------------------------------------------------------------- inputs
\* params.sideTextures when it is an object: the keys it holds
SideTextureInputs == {SideSet, SideSet \ {"front"}, SideSet \ {"left", "back"}}

\* the source part of params: sideTextures null (stNull) or an object with
\* the keys st, panoramaCode and imgPathMask set (TRUE) or null
SourceInputs == {[stNull |-> TRUE, st |-> {}, code |-> c, mask |-> m] : c \in BOOLEAN, m \in BOOLEAN} \cup {[stNull |-> FALSE, st |-> x, code |-> c, mask |-> c] : x \in SideTextureInputs, c \in BOOLEAN}

\* the arguments after params: functions and values that are not functions
ArgLists == {<< >>, <<"fn">>, <<"other">>, <<"fn", "fn">>}

\* One call of the constructor: the selector and whether the element it
\* finds has a positive width and height, whether params is a plain
\* object, the further arguments, and the source part of params.
CtorInputs == [sel : Selectors, sized : BOOLEAN, plain : BOOLEAN, args : ArgLists, src : SourceInputs]

ValidSource == [stNull |-> FALSE, st |-> SideSet, code |-> FALSE, mask |-> FALSE]

ValidInputs == {[sel |-> c, sized |-> TRUE, plain |-> TRUE, args |-> a, src |-> ValidSource] : c \in Targets, a \in {<< >>, <<"fn">>}}

\* The calls that differ from a valid call in at most one of the five parts
NearValidInputs == {[v EXCEPT !.sel = x] : v \in ValidInputs, x \in Selectors} \cup {[v EXCEPT !.sized = x] : v \in ValidInputs, x \in BOOLEAN} \cup {[v EXCEPT !.plain = x] : v \in ValidInputs, x \in BOOLEAN} \cup {[v EXCEPT !.args = x] : v \in ValidInputs, x \in ArgLists} \cup {[v EXCEPT !.src = x] : v \in ValidInputs, x \in SourceInputs}

\* the part of params that configures zoom, wheel and the animation loop
DefaultParams == [startZoom |-> DefaultStartZoom, minFov |-> DefaultMinFov, maxFov |-> DefaultMaxFov, fovMouseStep |-> DefaultFovMouseStep, mouseWheelRequired |-> FALSE, fpsLimit |-> DefaultFpsLimit]

\* params of the calls that configure zoom: startZoom inside and outside
\* 0..100, a wide, a narrow and an empty fov range, a step larger than it
ZoomParams == {[DefaultParams EXCEPT !.startZoom = z, !.minFov = r[1], !.maxFov = r[2], !.fovMouseStep = st] : z \in {0, 50, 130}, r \in {<<10, 75>>, <<40, 43>>, <<40, 40>>}, st \in {2, 5}}

\* params of the calls that configure the animation loop
LoopParams == {[DefaultParams EXCEPT !.fpsLimit = f] : f \in {30, 50}}

\* the percent argument of zoom()
Percents == {5 * k : k \in -2..22}

\* event.deltaY of a wheel event
WheelDeltas == {1, -1, 0}

\* the pointer positions of mouse and touch events, in half pixels
Points == {<<0, 0>>, <<5397, 2000>>}

\* event.touches.length
TouchCounts == {1, 2}

\* the time between two dispatches of the event loop, in milliseconds
TimeSteps == {20}

\* a drag reference (mouseDownState, touchStartState); set is FALSE for
\* null and undefined
NoRef == [set |-> FALSE, x |-> 0, y |-> 0, lon |-> 0, lat |-> 0]

Ref(x, y, lon, lat) == [set |-> TRUE, x |-> x, y |-> y, lon |-> lon, lat |-> lat]

VARIABLES sess, tag, bindings, wrappers, wheelPlugin, pending, cbCalls, firstDraws, asyncThrown, call, now, raf

vars == <<sess, tag, bindings, wrappers, wheelPlugin, pending, cbCalls, firstDraws, asyncThrown, call, now, raf>>

\* ------------------------------------------------------------ the object
\* An instance right after "var private = {...}" and before any check ran.
\* made: the page holds the object; getter: __getter is still defined;
\* drawCalls: the calls of draw() the page has made on it; cbGiven: the
\* first argument after params was a function (kept after destroy);
\* minFov, maxFov, fovMouseStep, fpsLimit: the fields of this.params (0
\* while this.params is undefined); site: the container the object was
\* built on (kept after destroy); refreshed: the code that is running on
\* the object has called camera.updateProjectionMatrix() (FALSE between
\* two runs); textures: the image of the THREE.Texture that loadTexture
\* made for each side, loading: the sides whose <img> has not yet fired
\* load or error (both live on in the closures of the loads when the
\* object is destroyed).
FreshSession == [made |-> FALSE, callback |-> FALSE, hasParams |-> FALSE, mwr |-> FALSE, container |-> "undef", panoramaId |-> FALSE, wrapper |-> FALSE, camera |-> FALSE, fov |-> 0, lon |-> StartLon, lat |-> StartLat, holdByUser |-> FALSE, getter |-> TRUE, drawCalls |-> 0, cbGiven |-> FALSE, minFov |-> 0, maxFov |-> 0, fovMouseStep |-> 0, fpsLimit |-> 0, lastAnimationUpdate |-> Undefined, mouseDownState |-> NoRef, touchStartState |-> NoRef, site |-> "undef", refreshed |-> FALSE, textures |-> [sd \in SideSet |-> "none"], loading |-> {}]

NoInput == [sel |-> "nomatch", sized |-> FALSE, plain |-> FALSE, args |-> << >>, src |-> [stNull |-> TRUE, st |-> {}, code |-> FALSE, mask |-> FALSE]]

\* What the host page observes of the call it has just made: the inputs,
\* the container's tag and size when the call started, the check that
\* failed (0: none), the exception and whether it was thrown to the caller.
\* The same record holds what a dispatched handler did until the event
\* loop is back in control: arg, x, y are the inputs of the call or event
\* (percent, deltaY, touches.length, the pointer position), ret is the
\* value returned, was the fov and lonWas the longitude before the call,
\* latWas the latitude, drawn whether a frame was rendered, refreshed
\* whether camera.updateProjectionMatrix() was called; an event's
\* container is in.sel.
NoCall == [op |-> "none", s |-> 0, in |-> NoInput, occ |-> 0, check |-> 0, err |-> "none", side |-> "none", thrown |-> FALSE, arg |-> 0, x |-> 0, y |-> 0, ret |-> 0, was |-> 0, lonWas |-> 0, latWas |-> 0, drawn |-> FALSE, refreshed |-> FALSE]

\* No script of the page is running: the page is back in the event loop,
\* where timers and the callbacks of require() are dispatched.
Idle == call.op = "none"

Task(t, s, err) == [t |-> t, s |-> s, err |-> err]

\* ------------------------------------------------------------------ zoom
Clamp(lo, hi, x) == IF x < lo THEN lo ELSE IF x > hi THEN hi ELSE x

\* Math.round of (n / d) for d > 0: rounds half up
RoundDiv(n, d) == (2 * n + d) \div (2 * d)

\* (mutant) zoom() that does not invert the percent
zoomNotInverted(percent, minFov, maxFov) == RoundDiv(Clamp(0, 100, percent) * (maxFov - minFov), 100) + minFov

zoom(percent, minFov, maxFov) == RoundDiv((100 - Clamp(0, 100, percent)) * (maxFov - minFov), 100) + minFov

\* (mutant) zoom() that ignores justCalculate and always sets the camera
zoomCallAlwaysSets(r, percent, justCalculate) == IF ~r.hasParams THEN [r |-> r, err |-> "TypeError", ret |-> 0] ELSE LET newFov == zoom(percent, r.minFov, r.maxFov) IN IF ~r.getter \/ ~r.camera THEN [r |-> r, err |-> "TypeError", ret |-> 0] ELSE [r |-> [r EXCEPT !.fov = newFov, !.refreshed = TRUE], err |-> "none", ret |-> newFov]

\* zoom(percent, justCalculate) on an object record: this.params is
\* undefined before line 292 and after destroy(); the camera is null until
\* line 379.
zoomCall(r, percent, justCalculate) == IF ~r.hasParams THEN [r |-> r, err |-> "TypeError", ret |-> 0] ELSE LET newFov == zoom(percent, r.minFov, r.maxFov) IN IF justCalculate THEN [r |-> r, err |-> "none", ret |-> newFov] ELSE IF ~r.getter \/ ~r.camera THEN [r |-> r, err |-> "TypeError", ret |-> 0] ELSE [r |-> [r EXCEPT !.fov = newFov, !.refreshed = TRUE], err |-> "none", ret |-> newFov]

\* ------------------------------------------------------------------ draw
\* draw() on an object record: the new record and the error it raises.
\* __getter is undefined after destroy(); target, camera and renderer are
\* null until the constructor has passed every check.
\* (mutant) draw() that wraps the longitude by subtracting 360
drawLonModulo(r) == LET l == IF r.holdByUser = FALSE THEN r.lon + LonStep ELSE r.lon IN IF l >= LonWrap THEN l - LonWrap ELSE l

\* (mutant) draw() that does not advance the longitude
drawLonNoAdvance(r) == IF r.lon >= LonWrap THEN 0 ELSE r.lon

\* (mutant) draw() that advances the longitude also while the user holds
drawLonHeld(r) == LET l == r.lon + LonStep IN IF l >= LonWrap THEN 0 ELSE l

drawLon(r) == LET l == IF r.holdByUser = FALSE THEN r.lon + LonStep ELSE r.lon IN IF l >= LonWrap THEN 0 ELSE l

\* (mutant) draw() that does not clamp the latitude
drawLatUnclamped(r) == r.lat

drawLat(r) == Clamp(-LatLimit, LatLimit, r.lat)

\* (mutant) draw() that releases the hold of the user
drawReleasesHold(r) == IF ~r.getter THEN [r |-> r, err |-> "TypeError", drawn |-> FALSE] ELSE LET r2 == [r EXCEPT !.lon = drawLon(r), !.lat = drawLat(r), !.holdByUser = FALSE] IN IF ~r.camera THEN [r |-> r2, err |-> "TypeError", drawn |-> FALSE] ELSE [r |-> r2, err |-> "none", drawn |-> TRUE]

draw(r) == IF ~r.getter THEN [r |-> r, err |-> "TypeError", drawn |-> FALSE] ELSE LET r2 == [r EXCEPT !.lon = drawLon(r), !.lat = drawLat(r)] IN IF ~r.camera THEN [r |-> r2, err |-> "TypeError", drawn |-> FALSE] ELSE [r |-> r2, err |-> "none", drawn |-> TRUE]

\* ------------------------------------------------------------- makeError
\* "thrown": the exception leaves the running code; "deferred": a timer is
\* set that calls the callback with the exception and then destroy().
makeError(callback) == IF callback THEN "deferred" ELSE "thrown"

\* (mutant) the constructor draws the first frame whether or not there is
\* a callback
firstFrameAlways(callback) == TRUE

\* line 504: "if (!private.callback) this.draw()"
firstFrameInCtor(callback) == ~callback

\* lines 513 and 524: "if (private.callback) { self.draw(); setTimeout(...) }"
firstFrameInProbe(callback) == callback

\* ----------------------------------------------------------- constructor
\* The every() loop over the arguments after params (lines 251-270):
\* cb is private.callback after the loop, bad whether makeError was called.
RECURSIVE ParseArguments(_, _, _)
ParseArguments(args, i, cb) == IF i > Len(args) THEN [cb |-> cb, bad |-> FALSE] ELSE IF i > 1 THEN [cb |-> cb, bad |-> TRUE] ELSE IF args[i] = "fn" THEN (IF ~cb THEN ParseArguments(args, i + 1, TRUE) ELSE [cb |-> cb, bad |-> TRUE]) ELSE [cb |-> cb, bad |-> TRUE]

\* (mutant) the loop reports the last missing side instead of the first
FirstMissingSideLast(st) == LET idx == {i \in 1..Len(sides) : sides[i] \notin st} IN IF idx = {} THEN "none" ELSE sides[CHOOSE i \in idx : \A j \in idx : i >= j]

\* sides.every(side in sideTextures): the first side that is missing
FirstMissingSide(st) == LET idx == {i \in 1..Len(sides) : sides[i] \notin st} IN IF idx = {} THEN "none" ELSE sides[CHOOSE i \in idx : \A j \in idx : i <= j]

\* The page passed a function as the argument after params
CallbackPassed(in) == Len(in.args) >= 1 /\ in.args[1] = "fn"

Failure(check, err, side, cb) == [check |-> check, err |-> err, side |-> side, cb |-> cb]

\* (mutant) the constructor without the check of the container's tag
CtorChecksNoTag(in) == LET p == ParseArguments(in.args, 1, FALSE) IN IF ~in.plain THEN Failure(1, "IncorrectArgument", "none", FALSE) ELSE IF p.bad THEN Failure(2, "IncorrectArgument", "none", p.cb) ELSE IF in.src.stNull /\ (~in.src.code \/ ~in.src.mask) THEN Failure(3, "RequiredParameter", "none", p.cb) ELSE IF ~in.src.stNull /\ FirstMissingSide(in.src.st) # "none" THEN Failure(3, "RequiredSideTexture", FirstMissingSide(in.src.st), p.cb) ELSE IF in.sel \notin Containers THEN Failure(4, "NoContainer", "none", p.cb) ELSE IF ~in.sized THEN Failure(5, "ContainerZeroSize", "none", p.cb) ELSE Failure(0, "none", "none", p.cb)

\* (mutant) the constructor resolving the container before it checks the
\* required parameters
CtorChecksContainerFirst(in) == LET p == ParseArguments(in.args, 1, FALSE) IN IF ~in.plain THEN Failure(1, "IncorrectArgument", "none", FALSE) ELSE IF p.bad THEN Failure(2, "IncorrectArgument", "none", p.cb) ELSE IF in.sel \notin Containers THEN Failure(4, "NoContainer", "none", p.cb) ELSE IF ~in.sized THEN Failure(5, "ContainerZeroSize", "none", p.cb) ELSE IF tag[in.sel] # 0 THEN Failure(6, "SinglePanoramaPerContainer", "none", p.cb) ELSE IF in.src.stNull /\ (~in.src.code \/ ~in.src.mask) THEN Failure(3, "RequiredParameter", "none", p.cb) ELSE IF ~in.src.stNull /\ FirstMissingSide(in.src.st) # "none" THEN Failure(3, "RequiredSideTexture", FirstMissingSide(in.src.st), p.cb) ELSE Failure(0, "none", "none", p.cb)

\* The checks of the constructor in the order of the code; cb is the value
\* of private.callback when makeError is called (or at the end).
CtorChecks(in) == IF ~in.plain THEN Failure(1, "IncorrectArgument", "none", FALSE) ELSE LET p == ParseArguments(in.args, 1, FALSE) IN IF p.bad THEN Failure(2, "IncorrectArgument", "none", p.cb) ELSE IF in.src.stNull /\ (~in.src.code \/ ~in.src.mask) THEN Failure(3, "RequiredParameter", "none", p.cb) ELSE IF ~in.src.stNull /\ FirstMissingSide(in.src.st) # "none" THEN Failure(3, "RequiredSideTexture", FirstMissingSide(in.src.st), p.cb) ELSE IF in.sel \notin Containers THEN Failure(4, "NoContainer", "none", p.cb) ELSE IF ~in.sized THEN Failure(5, "ContainerZeroSize", "none", p.cb) ELSE IF tag[in.sel] # 0 THEN Failure(6, "SinglePanoramaPerContainer", "none", p.cb) ELSE Failure(0, "none", "none", p.cb)

\* The fields the object has when the constructor stops at a failed check
FailedSession(in, f) == LET p == f.check >= 3 IN [FreshSession EXCEPT !.made = TRUE, !.callback = f.cb, !.cbGiven = CallbackPassed(in), !.hasParams = p, !.container = IF f.check <= 3 THEN "undef" ELSE IF f.check = 4 THEN "empty" ELSE in.sel, !.minFov = IF p THEN DefaultParams.minFov ELSE 0, !.maxFov = IF p THEN DefaultParams.maxFov ELSE 0, !.fovMouseStep = IF p THEN DefaultParams.fovMouseStep ELSE 0, !.fpsLimit = IF p THEN DefaultParams.fpsLimit ELSE 0]

\* The fields the object has at line 379, before its camera is made, params
\* being the defaults extended by the params of the call
BeforeCamera(in, f, params) == [FreshSession EXCEPT !.made = TRUE, !.callback = f.cb, !.cbGiven = CallbackPassed(in), !.hasParams = TRUE, !.mwr = params.mouseWheelRequired, !.container = in.sel, !.site = in.sel, !.panoramaId = TRUE, !.minFov = params.minFov, !.maxFov = params.maxFov, !.fovMouseStep = params.fovMouseStep, !.fpsLimit = params.fpsLimit]

\* The fields the object has when every check passed (lines 365-502): the
\* camera is made with the fov zoom(startZoom, true) returns
ConfiguredSession(in, f, params) == LET b == BeforeCamera(in, f, params) IN [b EXCEPT !.camera = TRUE, !.fov = zoomCall(b, params.startZoom, TRUE).ret, !.textures = [sd \in SideSet |-> "placeholder"], !.loading = SideSet, !.wrapper = TRUE, !.lastAnimationUpdate = 0]

\* ... when the call sets none of them but mouseWheelRequired
BuiltSession(in, f, mwr) == ConfiguredSession(in, f, [DefaultParams EXCEPT !.mouseWheelRequired = mwr])

BoundEvents == {"mousedown", "mousemove", "mouseup", "touchstart", "touchmove", "touchend"}

CtorBindings(c, s) == {<<"window", s, "resize">>} \cup {<<c, s, ev>> : ev \in BoundEvents}

NextSession(s) == ~sess[s].made /\ \A t \in Sessions : t < s => sess[t].made

CallOf(s, in, f, thrown) == [op |-> "new", s |-> s, in |-> in, occ |-> IF in.sel \in Containers THEN tag[in.sel] ELSE 0, check |-> f.check, err |-> f.err, side |-> f.side, thrown |-> thrown]

Init == /\ sess = [s \in Sessions |-> FreshSession]
        /\ tag = [c \in Containers |-> 0]
        /\ bindings = {}
        /\ wrappers = {}
        /\ wheelPlugin \in BOOLEAN
        /\ pending = {}
        /\ cbCalls = [s \in Sessions |-> << >>]
        /\ firstDraws = [s \in Sessions |-> 0]
        /\ asyncThrown = [s \in Sessions |-> {}]
        /\ call = NoCall
        /\ now = 0
        /\ raf = [s \in Sessions |-> 0]

\* new Panorama(sel, params, args...) stopping at a failed check, the
\* exception thrown: the caller gets no object.
ConstructThrows(s, in) == LET f == CtorChecks(in) IN
    /\ f.check # 0
    /\ makeError(f.cb) = "thrown"
    /\ call' = CallOf(0, in, f, TRUE)
    /\ UNCHANGED <<sess, tag, bindings, wrappers, wheelPlugin, pending, cbCalls, firstDraws, asyncThrown, now, raf>>

\* ... stopping at a failed check with a callback set: makeError sets the
\* timer and the constructor returns false, so new yields the object.
ConstructDefers(s, in) == LET f == CtorChecks(in) IN
    /\ f.check # 0
    /\ makeError(f.cb) = "deferred"
    /\ sess' = [sess EXCEPT ![s] = FailedSession(in, f)]
    /\ pending' = pending \cup {Task("errTimer", s, f.err)}
    /\ call' = CallOf(s, in, f, FALSE)
    /\ UNCHANGED <<tag, bindings, wrappers, wheelPlugin, cbCalls, firstDraws, asyncThrown, now, raf>>

\* ... passing every check (lines 365-531): the first frame is drawn here
\* when there is no callback, and require() is left pending.
ConstructConfigured(s, in, params) == LET f == CtorChecks(in) b == ConfiguredSession(in, f, params) d == draw(b) IN
    /\ f.check = 0
    /\ sess' = [sess EXCEPT ![s] = IF firstFrameInCtor(b.callback) THEN d.r ELSE b]
    /\ firstDraws' = [firstDraws EXCEPT ![s] = IF firstFrameInCtor(b.callback) /\ d.drawn THEN @ + 1 ELSE @]
    /\ wrappers' = wrappers \cup {<<in.sel, s>>}
    /\ tag' = [tag EXCEPT ![in.sel] = s]
    /\ bindings' = bindings \cup CtorBindings(in.sel, s)
    /\ pending' = pending \cup {Task("probe", s, "none")}
    /\ call' = CallOf(s, in, f, FALSE)
    /\ UNCHANGED <<wheelPlugin, cbCalls, asyncThrown, now, raf>>

\* ... with params that set none of the optional fields but
\* mouseWheelRequired
ConstructBuilds(s, in, mwr) == ConstructConfigured(s, in, [DefaultParams EXCEPT !.mouseWheelRequired = mwr])

\* The page calls "new Panorama(...)" with one of the calls of Ins; the
\* object made is the next unused one. The three cases of the constructor:
Construct(s, Ins) ==
    /\ Idle
    /\ NextSession(s)
    /\ \E in \in Ins : \/ ConstructThrows(s, in)
                       \/ ConstructDefers(s, in)
                       \/ \E mwr \in BOOLEAN : ConstructBuilds(s, in, mwr)

\* -------------------------------------------------------------- destroy
\* The object after destroy() ran to its end: the public fields are set to
\* undefined, the keys of private are deleted, __getter is undefined.
DestroyedSession(r) == [r EXCEPT !.callback = FALSE, !.hasParams = FALSE, !.mwr = FALSE, !.container = "undef", !.panoramaId = FALSE, !.wrapper = FALSE, !.camera = FALSE, !.fov = 0, !.lon = 0, !.lat = 0, !.holdByUser = FALSE, !.getter = FALSE, !.minFov = 0, !.maxFov = 0, !.fovMouseStep = 0, !.fpsLimit = 0, !.lastAnimationUpdate = Undefined, !.mouseDownState = NoRef, !.touchStartState = NoRef]

\* (mutant) unbind() without the namespace: every handler of the target
unbindAnyNamespace(bs, target, s) == {b \in bs : b[1] # target}

\* jQuery unbind('.' + panoramaId) on a target: the namespace is the
\* string "undefined" when panoramaId is not set, which names no handler.
unbind(bs, target, s) == IF sess[s].panoramaId THEN {b \in bs : ~(b[1] = target /\ b[2] = s)} ELSE bs

\* (mutant) destroy() that skips a missing wrapper and goes on to remove
\* the tag of the container
destroySkipsWrapper(s) == LET r == sess[s] b1 == unbind(unbind(bindings, r.container, s), "window", s) IN IF r.container = "undef" THEN [sess |-> sess, tag |-> tag, bindings |-> bindings, wrappers |-> wrappers, err |-> "TypeError"] ELSE [sess |-> [sess EXCEPT ![s] = DestroyedSession(r)], tag |-> [c \in Containers |-> IF c = r.container THEN 0 ELSE tag[c]], bindings |-> b1, wrappers |-> {w \in wrappers : w[2] # s}, err |-> "none"]

\* (mutant) destroy() that leaves the tag of the container in place
destroyKeepsTag(s) == LET r == sess[s] b1 == unbind(unbind(bindings, r.container, s), "window", s) IN IF r.container = "undef" THEN [sess |-> sess, tag |-> tag, bindings |-> bindings, wrappers |-> wrappers, err |-> "TypeError"] ELSE IF ~r.wrapper THEN [sess |-> sess, tag |-> tag, bindings |-> b1, wrappers |-> wrappers, err |-> "TypeError"] ELSE [sess |-> [sess EXCEPT ![s] = DestroyedSession(r)], tag |-> tag, bindings |-> b1, wrappers |-> {w \in wrappers : w[2] # s}, err |-> "none"]

\* destroy() of object s as the values it leaves and the error it raises:
\* a TypeError at line 648 when $container is undefined, at line 650 when
\* $panoramaWrapper is undefined (after both unbind calls).
destroy(s) == LET r == sess[s] b1 == unbind(unbind(bindings, r.container, s), "window", s) IN IF r.container = "undef" THEN [sess |-> sess, tag |-> tag, bindings |-> bindings, wrappers |-> wrappers, err |-> "TypeError"] ELSE IF ~r.wrapper THEN [sess |-> sess, tag |-> tag, bindings |-> b1, wrappers |-> wrappers, err |-> "TypeError"] ELSE [sess |-> [sess EXCEPT ![s] = DestroyedSession(r)], tag |-> [c \in Containers |-> IF c = r.container THEN 0 ELSE tag[c]], bindings |-> b1, wrappers |-> {w \in wrappers : w[2] # s}, err |-> "none"]

\* The statements of destroy() that change the page, in the order of the
\* code: line 648, line 649, line 650, line 651
TeardownSteps == <<"unbindContainer", "unbindWindow", "removeWrapper", "removeData">>

\* The bindings, the wrappers and the tags after the first k of these
\* statements of destroy() of the built object s
teardown(s, k) == LET c == sess[s].container
                      b1 == IF k >= 1 THEN unbind(bindings, c, s) ELSE bindings
                      b2 == IF k >= 2 THEN unbind(b1, "window", s) ELSE b1
                  IN [bindings |-> b2,
                      wrappers |-> IF k >= 3 THEN {w \in wrappers : w[2] # s} ELSE wrappers,
                      tag |-> IF k >= 4 THEN [d \in Containers |-> IF d = c THEN 0 ELSE tag[d]] ELSE tag]

\* destroy() of a built object begins: no statement has run yet
DestroyBegins(s) ==
    /\ Idle
    /\ sess[s].panoramaId
    /\ call' = [NoCall EXCEPT !.op = "destroying", !.s = s, !.arg = 0, !.in = [NoInput EXCEPT !.sel = sess[s].container]]
    /\ UNCHANGED <<sess, tag, bindings, wrappers, wheelPlugin, pending, cbCalls, firstDraws, asyncThrown, now, raf>>

\* The next statement of the destroy() that is running: one of lines
\* 648-651, and after them lines 654-665 at once, which end the call
DestroyStep(s) == LET k == call.arg + 1 t == teardown(s, k) IN
    /\ call.op = "destroying" /\ call.s = s
    /\ IF k <= Len(TeardownSteps)
       THEN /\ bindings' = t.bindings
            /\ wrappers' = t.wrappers
            /\ tag' = t.tag
            /\ call' = [call EXCEPT !.arg = k]
            /\ UNCHANGED sess
       ELSE /\ sess' = [sess EXCEPT ![s] = DestroyedSession(sess[s])]
            /\ call' = [NoCall EXCEPT !.op = "destroy", !.s = s]
            /\ UNCHANGED <<bindings, wrappers, tag>>
    /\ UNCHANGED <<wheelPlugin, pending, cbCalls, firstDraws, asyncThrown, now, raf>>

\* ------------------------------------------------------- deferred steps
\* The timer of makeError: callback.call(self, exception); self.destroy()
ErrorTimer(s, err) == LET d == destroy(s) IN
    /\ Idle
    /\ Task("errTimer", s, err) \in pending
    /\ pending' = pending \ {Task("errTimer", s, err)}
    /\ IF ~sess[s].getter
       THEN /\ asyncThrown' = [asyncThrown EXCEPT ![s] = @ \cup {"TypeError"}]
            /\ UNCHANGED <<sess, tag, bindings, wrappers, cbCalls>>
       ELSE /\ cbCalls' = [cbCalls EXCEPT ![s] = Append(@, err)]
            /\ sess' = d.sess
            /\ tag' = d.tag
            /\ bindings' = d.bindings
            /\ wrappers' = d.wrappers
            /\ asyncThrown' = [asyncThrown EXCEPT ![s] = IF d.err = "none" THEN @ ELSE @ \cup {d.err}]
    /\ UNCHANGED call
    /\ UNCHANGED <<wheelPlugin, firstDraws, now, raf>>

\* The timer of a successful construction: private.callback.call(self, null)
\* (private.callback is deleted by destroy)
CallbackTimer(s) ==
    /\ Idle
    /\ Task("okTimer", s, "none") \in pending
    /\ pending' = pending \ {Task("okTimer", s, "none")}
    /\ IF ~sess[s].callback
       THEN /\ asyncThrown' = [asyncThrown EXCEPT ![s] = @ \cup {"TypeError"}]
            /\ UNCHANGED cbCalls
       ELSE /\ cbCalls' = [cbCalls EXCEPT ![s] = Append(@, "null")]
            /\ UNCHANGED asyncThrown
    /\ UNCHANGED call
    /\ UNCHANGED <<sess, tag, bindings, wrappers, wheelPlugin, firstDraws, now, raf>>

\* The first frame and the timer of the callback (lines 513-518, 524-529)
FirstFrameAndCallback(s) == LET d == draw(sess[s]) IN
    IF firstFrameInProbe(sess[s].callback)
    THEN /\ sess' = [sess EXCEPT ![s] = d.r]
         /\ firstDraws' = [firstDraws EXCEPT ![s] = IF d.drawn THEN @ + 1 ELSE @]
         /\ pending' = (pending \ {Task("probe", s, "none")}) \cup {Task("okTimer", s, "none")}
    ELSE /\ pending' = pending \ {Task("probe", s, "none")}
         /\ UNCHANGED <<sess, firstDraws>>

\* require(['jquery.mousewheel']) resolved: the wheel handler is bound
ProbeLoaded(s) ==
    /\ Idle
    /\ Task("probe", s, "none") \in pending
    /\ wheelPlugin
    /\ IF sess[s].container = "undef"
       THEN /\ asyncThrown' = [asyncThrown EXCEPT ![s] = @ \cup {"TypeError"}]
            /\ pending' = pending \ {Task("probe", s, "none")}
            /\ UNCHANGED <<sess, bindings, firstDraws>>
       ELSE /\ bindings' = bindings \cup {<<sess[s].container, s, "mousewheel">>}
            /\ FirstFrameAndCallback(s)
            /\ UNCHANGED asyncThrown
    /\ UNCHANGED call
    /\ UNCHANGED <<tag, wrappers, wheelPlugin, cbCalls, now, raf>>

\* require(['jquery.mousewheel']) failed: the errback of lines 519-531
ProbeFailed(s) ==
    /\ Idle
    /\ Task("probe", s, "none") \in pending
    /\ ~wheelPlugin
    /\ IF ~sess[s].hasParams
       THEN /\ asyncThrown' = [asyncThrown EXCEPT ![s] = @ \cup {"TypeError"}]
            /\ pending' = pending \ {Task("probe", s, "none")}
            /\ UNCHANGED <<sess, firstDraws>>
       ELSE IF sess[s].mwr
            THEN /\ IF makeError(sess[s].callback) = "deferred"
                    THEN /\ pending' = (pending \ {Task("probe", s, "none")}) \cup {Task("errTimer", s, "LoadError")}
                         /\ UNCHANGED asyncThrown
                    ELSE /\ pending' = pending \ {Task("probe", s, "none")}
                         /\ asyncThrown' = [asyncThrown EXCEPT ![s] = @ \cup {"LoadError"}]
                 /\ UNCHANGED <<sess, firstDraws>>
            ELSE /\ FirstFrameAndCallback(s)
                 /\ UNCHANGED asyncThrown
    /\ UNCHANGED call
    /\ UNCHANGED <<tag, bindings, wrappers, wheelPlugin, cbCalls, now, raf>>

\* (mutant) load handler of one texture that all six materials share
loadTextureShared(r, side) == [r EXCEPT !.textures = [sd \in SideSet |-> "image"], !.loading = @ \ {side}]

\* The load handler of the <img> of a side (lines 550-553): the image
\* becomes the image of the texture the closure holds
loadTexture(r, side) == [r EXCEPT !.textures[side] = "image", !.loading = @ \ {side}]

\* (mutant) load handler that goes on to draw the object
ImageLoadsDraws(s, side) == LET d == draw(loadTexture(sess[s], side)) IN
    /\ Idle
    /\ side \in sess[s].loading
    /\ sess' = [sess EXCEPT ![s] = d.r]
    /\ asyncThrown' = [asyncThrown EXCEPT ![s] = IF d.err = "none" THEN @ ELSE @ \cup {d.err}]
    /\ call' = [NoCall EXCEPT !.op = "load", !.s = s, !.side = side, !.err = d.err, !.thrown = (d.err # "none")]
    /\ UNCHANGED <<tag, bindings, wrappers, wheelPlugin, pending, cbCalls, firstDraws, now, raf>>

\* The <img> of a side of object s fires load and the handler runs
ImageLoads(s, side) ==
    /\ Idle
    /\ side \in sess[s].loading
    /\ sess' = [sess EXCEPT ![s] = loadTexture(@, side)]
    /\ call' = [NoCall EXCEPT !.op = "load", !.s = s, !.side = side]
    /\ UNCHANGED <<tag, bindings, wrappers, wheelPlugin, pending, cbCalls, firstDraws, asyncThrown, now, raf>>

\* (mutant) the error of an <img> reported as an error of the object
ImageFailsSurfaced(s, side) ==
    /\ Idle
    /\ side \in sess[s].loading
    /\ sess' = [sess EXCEPT ![s].loading = @ \ {side}]
    /\ asyncThrown' = [asyncThrown EXCEPT ![s] = @ \cup {"LoadError"}]
    /\ UNCHANGED <<tag, bindings, wrappers, wheelPlugin, pending, cbCalls, firstDraws, call, now, raf>>

\* The <img> of a side of object s fires error: no handler is bound for it
ImageFails(s, side) ==
    /\ Idle
    /\ side \in sess[s].loading
    /\ sess' = [sess EXCEPT ![s].loading = @ \ {side}]
    /\ UNCHANGED <<tag, bindings, wrappers, wheelPlugin, pending, cbCalls, firstDraws, asyncThrown, call, now, raf>>

\* ------------------------------------------------------ calls of the host
\* panorama.destroy() called by the page on an object it holds
Destroy(s) == LET d == destroy(s) IN
    /\ Idle
    /\ sess[s].made
    /\ sess' = d.sess
    /\ tag' = d.tag
    /\ bindings' = d.bindings
    /\ wrappers' = d.wrappers
    /\ call' = [NoCall EXCEPT !.op = "destroy", !.s = s, !.err = d.err, !.thrown = (d.err # "none")]
    /\ UNCHANGED <<wheelPlugin, pending, cbCalls, firstDraws, asyncThrown, now, raf>>

RECURSIVE SumDrawCalls(_)
SumDrawCalls(n) == IF n = 0 THEN 0 ELSE sess[n].drawCalls + SumDrawCalls(n - 1)

DrawCalls == SumDrawCalls(MaxSessions)

\* panorama.draw() called by the page on an object it holds
Draw(s) == LET d == draw(sess[s]) IN
    /\ Idle
    /\ sess[s].made
    /\ DrawCalls < MaxDraws
    /\ sess' = [sess EXCEPT ![s] = [d.r EXCEPT !.drawCalls = @ + 1]]
    /\ call' = [NoCall EXCEPT !.op = "draw", !.s = s, !.err = d.err, !.thrown = (d.err # "none"), !.drawn = d.drawn, !.lonWas = sess[s].lon, !.latWas = sess[s].lat]
    /\ UNCHANGED <<tag, bindings, wrappers, wheelPlugin, pending, cbCalls, firstDraws, asyncThrown, now, raf>>

\* ------------------------------------------------------------ zoom call
\* panorama.zoom(percent, justCalculate) called by the page
Zoom(s, percent, justCalculate) == LET z == zoomCall(sess[s], percent, justCalculate) IN
    /\ Idle
    /\ sess[s].made
    /\ sess' = [sess EXCEPT ![s] = [z.r EXCEPT !.refreshed = FALSE]]
    /\ call' = [NoCall EXCEPT !.op = IF justCalculate THEN "zoomCalculate" ELSE "zoom", !.s = s, !.arg = percent, !.ret = z.ret, !.was = sess[s].fov, !.err = z.err, !.thrown = (z.err # "none"), !.refreshed = z.r.refreshed]
    /\ UNCHANGED <<tag, bindings, wrappers, wheelPlugin, pending, cbCalls, firstDraws, asyncThrown, now, raf>>

\* ------------------------------------------------------------- handlers
\* (mutant) the lookup that falls back on the object that was built on
\* the container last
getPanoramaKept(c) == IF tag[c] # 0 THEN tag[c] ELSE IF \E s \in Sessions : sess[s].site = c THEN CHOOSE s \in Sessions : sess[s].site = c /\ \A t \in Sessions : sess[t].site = c => t <= s ELSE 0

\* getPanorama.call(container): $(this).data('panorama'), 0 when absent
getPanorama(c) == tag[c]

mouseDownHandler(r, x, y) == [r EXCEPT !.holdByUser = TRUE, !.mouseDownState = Ref(x, y, r.lon, r.lat)]

\* (mutant) mouse move handler that moves from the current orientation
mouseMoveHandlerRelative(r, x, y) == IF r.holdByUser = TRUE /\ r.mouseDownState.set THEN [r EXCEPT !.lon = (r.mouseDownState.x - x) * DragStep + r.lon, !.lat = (y - r.mouseDownState.y) * DragStep + r.lat] ELSE r

\* (mutant) mouse move handler that does not look at holdByUser
mouseMoveHandlerUnheld(r, x, y) == IF r.mouseDownState.set THEN [r EXCEPT !.lon = (r.mouseDownState.x - x) * DragStep + r.mouseDownState.lon, !.lat = (y - r.mouseDownState.y) * DragStep + r.mouseDownState.lat] ELSE r

mouseMoveHandler(r, x, y) == IF r.holdByUser = TRUE /\ r.mouseDownState.set THEN [r EXCEPT !.lon = (r.mouseDownState.x - x) * DragStep + r.mouseDownState.lon, !.lat = (y - r.mouseDownState.y) * DragStep + r.mouseDownState.lat] ELSE r

\* (mutant) mouse up handler that clears the reference and keeps the hold
mouseUpHandlerKeepsHold(r) == [r EXCEPT !.mouseDownState = NoRef]

mouseUpHandler(r) == [r EXCEPT !.mouseDownState = NoRef, !.holdByUser = FALSE]

\* (mutant) the wheel handler with the two directions exchanged
mouseWheelHandlerSwapped(r, deltaY) == IF deltaY = -1 THEN (IF r.fov - r.fovMouseStep < r.minFov THEN r ELSE [r EXCEPT !.fov = @ - r.fovMouseStep]) ELSE IF deltaY = 1 THEN (IF r.fov + r.fovMouseStep > r.maxFov THEN r ELSE [r EXCEPT !.fov = @ + r.fovMouseStep]) ELSE r

\* (mutant) the wheel handler without the checks of the bounds
mouseWheelHandlerUnchecked(r, deltaY) == IF deltaY = 1 THEN [r EXCEPT !.fov = @ - r.fovMouseStep] ELSE IF deltaY = -1 THEN [r EXCEPT !.fov = @ + r.fovMouseStep] ELSE r

\* (mutant) wheel handler that moves the fov to the bound a step would pass
mouseWheelHandlerClamps(r, deltaY) == IF deltaY = 1 THEN [r EXCEPT !.fov = Clamp(r.minFov, r.maxFov, @ - r.fovMouseStep), !.refreshed = TRUE] ELSE IF deltaY = -1 THEN [r EXCEPT !.fov = Clamp(r.minFov, r.maxFov, @ + r.fovMouseStep), !.refreshed = TRUE] ELSE r

mouseWheelHandler(r, deltaY) == IF deltaY = 1 THEN (IF r.fov - r.fovMouseStep < r.minFov THEN r ELSE [r EXCEPT !.fov = @ - r.fovMouseStep, !.refreshed = TRUE]) ELSE IF deltaY = -1 THEN (IF r.fov + r.fovMouseStep > r.maxFov THEN r ELSE [r EXCEPT !.fov = @ + r.fovMouseStep, !.refreshed = TRUE]) ELSE r

\* (mutant) touch start handler that captures the first touch of any number
touchStartHandlerAnyCount(r, touches, x, y) == [r EXCEPT !.holdByUser = TRUE, !.touchStartState = Ref(x, y, r.lon, r.lat)]

touchStartHandler(r, touches, x, y) == IF touches = 1 THEN [r EXCEPT !.holdByUser = TRUE, !.touchStartState = Ref(x, y, r.lon, r.lat)] ELSE [r EXCEPT !.holdByUser = TRUE]

touchMoveHandler(r, touches, x, y) == IF r.holdByUser /\ touches = 1 /\ r.touchStartState.set THEN [r EXCEPT !.lon = (r.touchStartState.x - x) * DragStep + r.touchStartState.lon, !.lat = (y - r.touchStartState.y) * DragStep + r.touchStartState.lat] ELSE r

touchEndHandler(r) == [r EXCEPT !.touchStartState = NoRef, !.holdByUser = FALSE]

\* The handler bound for event ev, applied to the object the lookup found
handler(ev, r, arg, x, y) == CASE ev = "mousedown" -> mouseDownHandler(r, x, y) [] ev = "mousemove" -> mouseMoveHandler(r, x, y) [] ev = "mouseup" -> mouseUpHandler(r) [] ev = "mousewheel" -> mouseWheelHandler(r, arg) [] ev = "touchstart" -> touchStartHandler(r, arg, x, y) [] ev = "touchmove" -> touchMoveHandler(r, arg, x, y) [] ev = "touchend" -> touchEndHandler(r)

\* jQuery runs the handler of ev on container c when an object has it
\* bound there, or when the dispatch of the event began before destroy()
\* unbound it (the queue of handlers of a dispatch is fixed at its start):
\* the handler of an object destroyed on c then runs on the untagged c.
Bound(c, ev) == \E s \in Sessions : <<c, s, ev>> \in bindings

Stale(c) == tag[c] = 0 /\ \E s \in Sessions : sess[s].made /\ ~sess[s].getter /\ sess[s].site = c

\* The pointer positions dispatched keep the angles within the bounds
InBounds(r) == r.lon \in -MaxLon..MaxLon /\ r.lat \in -MaxLat..MaxLat

\* One run of the handler of ev with this = c (lines 814-820 first)
Dispatch(c, ev, arg, x, y) == LET p == getPanorama(c) IN
    /\ Idle
    /\ Bound(c, ev) \/ Stale(c)
    /\ p # 0 => InBounds(handler(ev, sess[p], arg, x, y))
    /\ IF p = 0
       THEN /\ call' = [NoCall EXCEPT !.op = ev, !.in = [NoInput EXCEPT !.sel = c], !.arg = arg, !.x = x, !.y = y, !.err = "HandlerCannotFoundThePanorama", !.thrown = TRUE]
            /\ UNCHANGED sess
       ELSE /\ sess' = [sess EXCEPT ![p] = [handler(ev, @, arg, x, y) EXCEPT !.refreshed = FALSE]]
            /\ call' = [NoCall EXCEPT !.op = ev, !.s = p, !.in = [NoInput EXCEPT !.sel = c], !.arg = arg, !.x = x, !.y = y, !.was = sess[p].fov, !.lonWas = sess[p].lon, !.latWas = sess[p].lat, !.refreshed = handler(ev, sess[p], arg, x, y).refreshed]
    /\ UNCHANGED <<tag, bindings, wrappers, wheelPlugin, pending, cbCalls, firstDraws, asyncThrown, now, raf>>

MouseDown(c, x, y) == Dispatch(c, "mousedown", 0, x, y)

MouseMove(c, x, y) == Dispatch(c, "mousemove", 0, x, y)

MouseUp(c) == Dispatch(c, "mouseup", 0, 0, 0)

MouseWheel(c, deltaY) == Dispatch(c, "mousewheel", deltaY, 0, 0)

TouchStart(c, touches, x, y) == Dispatch(c, "touchstart", touches, x, y)

TouchMove(c, touches, x, y) == Dispatch(c, "touchmove", touches, x, y)

TouchEnd(c) == Dispatch(c, "touchend", 0, 0, 0)

\* --------------------------------------------------------------- resize
\* resizeHandler(panorama): the camera and the renderer are read through
\* panorama.__getter, which is undefined after destroy(); the aspect and
\* the size are set from the container and the projection is refreshed
resizeHandler(r) == IF ~r.getter \/ ~r.camera THEN [r |-> r, err |-> "TypeError"] ELSE [r |-> [r EXCEPT !.refreshed = TRUE], err |-> "none"]

\* One run of resizeHandlerWrapper of object s on a resize of the window:
\* the closure passes its own object to resizeHandler. It runs while it is
\* bound, or when the dispatch began before destroy() unbound it.
Resize(s) == LET h == resizeHandler(sess[s]) IN
    /\ Idle
    /\ sess[s].made
    /\ <<"window", s, "resize">> \in bindings \/ (~sess[s].getter /\ sess[s].site # "undef")
    /\ sess' = [sess EXCEPT ![s] = [h.r EXCEPT !.refreshed = FALSE]]
    /\ call' = [NoCall EXCEPT !.op = "resize", !.s = s, !.in = [NoInput EXCEPT !.sel = sess[s].site], !.err = h.err, !.thrown = (h.err # "none"), !.was = sess[s].fov, !.lonWas = sess[s].lon, !.latWas = sess[s].lat, !.refreshed = h.r.refreshed]
    /\ UNCHANGED <<tag, bindings, wrappers, wheelPlugin, pending, cbCalls, firstDraws, asyncThrown, now, raf>>

\* -------------------------------------------------------- animation loop
\* panorama.animationLoop() called by the page: one callback is registered
\* with requestAnimationFrame
AnimationLoop(s) ==
    /\ Idle
    /\ sess[s].made
    /\ raf[s] < MaxLoops
    /\ raf' = [raf EXCEPT ![s] = @ + 1]
    /\ call' = [NoCall EXCEPT !.op = "animationLoop", !.s = s]
    /\ UNCHANGED <<sess, tag, bindings, wrappers, wheelPlugin, pending, cbCalls, firstDraws, asyncThrown, now>>

\* (mutant) the gate that lets every tick draw
frameDueAlways(r, time) == TRUE

\* time - lastAnimationUpdate >= 1000 / fpsLimit (false on undefined)
frameDue(r, time) == r.lastAnimationUpdate # Undefined /\ (time - r.lastAnimationUpdate) * r.fpsLimit >= 1000

\* (mutant) the tick that goes on when the object is destroyed
loopStopsNever(r) == FALSE

\* "if (!self.$container) return; // destroyed"
loopStops(r) == r.container = "undef"

\* (mutant) the callback that registers the next one only when it drew
TickDrawnOnly(s) == LET r == sess[s] d == draw(r) IN
    /\ Idle
    /\ raf[s] > 0
    /\ IF loopStops(r) \/ ~frameDue(r, now)
       THEN /\ raf' = [raf EXCEPT ![s] = @ - 1]
            /\ call' = [NoCall EXCEPT !.op = "tick", !.s = s, !.arg = now]
            /\ UNCHANGED <<sess, asyncThrown>>
       ELSE /\ sess' = [sess EXCEPT ![s] = [d.r EXCEPT !.lastAnimationUpdate = now]]
            /\ call' = [NoCall EXCEPT !.op = "tick", !.s = s, !.arg = now, !.drawn = TRUE, !.lonWas = r.lon]
            /\ UNCHANGED <<raf, asyncThrown>>
    /\ UNCHANGED <<tag, bindings, wrappers, wheelPlugin, pending, cbCalls, firstDraws, now>>

\* One callback of requestAnimationFrame of object s runs with the time
\* of the frame (lines 600-610): it draws when the frame is due and
\* registers the next callback unless the object is destroyed.
Tick(s) == LET r == sess[s] d == draw(r) IN
    /\ Idle
    /\ raf[s] > 0
    /\ IF loopStops(r)
       THEN /\ raf' = [raf EXCEPT ![s] = @ - 1]
            /\ call' = [NoCall EXCEPT !.op = "tick", !.s = s, !.arg = now]
            /\ UNCHANGED <<sess, asyncThrown>>
       ELSE IF ~frameDue(r, now)
            THEN /\ call' = [NoCall EXCEPT !.op = "tick", !.s = s, !.arg = now]
                 /\ UNCHANGED <<sess, raf, asyncThrown>>
            ELSE IF d.err # "none"
                 THEN /\ sess' = [sess EXCEPT ![s] = d.r]
                      /\ raf' = [raf EXCEPT ![s] = @ - 1]
                      /\ asyncThrown' = [asyncThrown EXCEPT ![s] = @ \cup {d.err}]
                      /\ call' = [NoCall EXCEPT !.op = "tick", !.s = s, !.arg = now, !.err = d.err, !.thrown = TRUE]
                 ELSE /\ sess' = [sess EXCEPT ![s] = [d.r EXCEPT !.lastAnimationUpdate = now]]
                      /\ call' = [NoCall EXCEPT !.op = "tick", !.s = s, !.arg = now, !.drawn = TRUE, !.lonWas = r.lon]
                      /\ UNCHANGED <<raf, asyncThrown>>
    /\ UNCHANGED <<tag, bindings, wrappers, wheelPlugin, pending, cbCalls, firstDraws, now>>

\* Time passes between two dispatches of the event loop
Advance(d) ==
    /\ Idle
    /\ now + d <= MaxTime
    /\ now' = now + d
    /\ UNCHANGED <<sess, tag, bindings, wrappers, wheelPlugin, pending, cbCalls, firstDraws, asyncThrown, call, raf>>

\* The script of the page that made the call ends (run to completion):
\* only then can a timer or a require() callback be dispatched.
HostScriptEnds ==
    /\ ~Idle
    /\ call.op # "destroying"
    /\ call' = NoCall
    /\ UNCHANGED <<sess, tag, bindings, wrappers, wheelPlugin, pending, cbCalls, firstDraws, asyncThrown, now, raf>>

Next == \/ \E s \in Sessions : Construct(s, NearValidInputs)
        \/ \E t \in pending : t.t = "errTimer" /\ ErrorTimer(t.s, t.err)
        \/ \E s \in Sessions : CallbackTimer(s)
        \/ \E s \in Sessions : ProbeLoaded(s)
        \/ \E s \in Sessions : ProbeFailed(s)
        \/ \E s \in Sessions : Destroy(s)
        \/ \E s \in Sessions : Draw(s)
        \/ HostScriptEnds

Spec == Init /\ [][Next]_vars

\* The constructor on every combination of inputs, and destroy()
NextCtor == \/ \E s \in Sessions : Construct(s, CtorInputs)
            \/ \E s \in Sessions : Destroy(s)
            \/ HostScriptEnds

SpecCtor == Init /\ [][NextCtor]_vars

\* ------------------------------------------------- zoom, drag, the loop
\* The calls with a valid source, a sized container and no callback
ViewInputs == {v \in ValidInputs : v.args = << >>}

\* "new Panorama(sel, params)" with one of the params of Ps
ConstructView(s, Ps) ==
    /\ Idle
    /\ NextSession(s)
    /\ \E in \in ViewInputs : \/ ConstructThrows(s, in)
                              \/ \E params \in Ps : ConstructConfigured(s, in, params)

\* zoom() and the wheel on objects built with the params of ZoomParams
NextZoom == \/ \E s \in Sessions : ConstructView(s, ZoomParams)
            \/ \E s \in Sessions : ProbeLoaded(s)
            \/ \E s \in Sessions : ProbeFailed(s)
            \/ \E s \in Sessions : Destroy(s)
            \/ \E s \in Sessions, p \in Percents, j \in BOOLEAN : Zoom(s, p, j)
            \/ \E c \in Targets, d \in WheelDeltas : MouseWheel(c, d)
            \/ HostScriptEnds

SpecZoom == Init /\ [][NextZoom]_vars

\* params with a wheel step wider than the range of the fov
DragParams == {[DefaultParams EXCEPT !.fovMouseStep = 100]}

\* mouse, touch and wheel events and draw() on the objects the page makes
\* one after the other on a container, MaxDragSessions of them
NextDrag == \/ \E s \in 1..MaxDragSessions : ConstructView(s, DragParams)
            \/ \E s \in Sessions : ProbeLoaded(s)
            \/ \E s \in Sessions : ProbeFailed(s)
            \/ \E s \in Sessions : Destroy(s)
            \/ \E s \in Sessions : Draw(s)
            \/ \E c \in Targets, pt \in Points : MouseDown(c, pt[1], pt[2])
            \/ \E c \in Targets, pt \in Points : MouseMove(c, pt[1], pt[2])
            \/ \E c \in Targets : MouseUp(c)
            \/ \E c \in Targets, d \in WheelDeltas : MouseWheel(c, d)
            \/ \E c \in Targets, n \in TouchCounts, pt \in Points : TouchStart(c, n, pt[1], pt[2])
            \/ \E c \in Targets, n \in TouchCounts, pt \in Points : TouchMove(c, n, pt[1], pt[2])
            \/ \E c \in Targets : TouchEnd(c)
            \/ HostScriptEnds

SpecDrag == Init /\ [][NextDrag]_vars

\* params with a start zoom in the middle of the range and a wheel step
\* that fits in it
RebuildParams == {[DefaultParams EXCEPT !.startZoom = 50, !.fovMouseStep = 30]}

\* every event, the resize of the window included, on the objects the page
\* makes and destroys one after the other on a container
NextRebuild == \/ \E s \in Sessions : ConstructView(s, RebuildParams)
               \/ \E s \in Sessions : ProbeLoaded(s)
               \/ \E s \in Sessions : ProbeFailed(s)
               \/ \E s \in Sessions : Destroy(s)
               \/ \E s \in Sessions : Resize(s)
               \/ \E c \in Targets, pt \in Points : MouseDown(c, pt[1], pt[2])
               \/ \E c \in Targets, pt \in Points : MouseMove(c, pt[1], pt[2])
               \/ \E c \in Targets : MouseUp(c)
               \/ \E c \in Targets, d \in WheelDeltas : MouseWheel(c, d)
               \/ \E c \in Targets, n \in TouchCounts, pt \in Points : TouchStart(c, n, pt[1], pt[2])
               \/ \E c \in Targets, n \in TouchCounts, pt \in Points : TouchMove(c, n, pt[1], pt[2])
               \/ \E c \in Targets : TouchEnd(c)
               \/ HostScriptEnds

SpecRebuild == Init /\ [][NextRebuild]_vars

\* "new Panorama(sel, params, ...)" with one of the calls of Ins and one
\* of the params of Ps
ConstructWith(s, Ins, Ps) ==
    /\ Idle
    /\ NextSession(s)
    /\ \E in \in Ins : \/ ConstructThrows(s, in)
                       \/ ConstructDefers(s, in)
                       \/ \E params \in Ps : ConstructConfigured(s, in, params)

\* the loads of the six images of the first object the page makes,
\* between its draws and the events of a mouse drag
NextTextures == \/ ConstructView(1, DragParams)
                \/ ProbeLoaded(1)
                \/ ProbeFailed(1)
                \/ Draw(1)
                \/ \E sd \in SideSet : ImageLoads(1, sd)
                \/ \E c \in Targets, pt \in Points : MouseDown(c, pt[1], pt[2])
                \/ \E c \in Targets, pt \in Points : MouseMove(c, pt[1], pt[2])
                \/ \E c \in Targets : MouseUp(c)
                \/ HostScriptEnds

SpecTextures == Init /\ [][NextTextures]_vars

\* the loads of the six images of the first object the page makes, with
\* and without a callback, each ending in load or in error
NextLoadFails == \/ ConstructWith(1, ValidInputs, {DefaultParams})
                 \/ ProbeLoaded(1)
                 \/ ProbeFailed(1)
                 \/ CallbackTimer(1)
                 \/ Draw(1)
                 \/ \E sd \in SideSet : ImageLoads(1, sd)
                 \/ \E sd \in SideSet : ImageFails(1, sd)
                 \/ HostScriptEnds

SpecLoadFails == Init /\ [][NextLoadFails]_vars

\* the sides whose image arrives late
LateSides == {"right", "front"}

\* loads that end before and after destroy() of their object, on objects
\* made one after the other on a container
NextLateLoads == \/ \E s \in Sessions : ConstructView(s, {DefaultParams})
                 \/ \E s \in Sessions : ProbeLoaded(s)
                 \/ \E s \in Sessions : ProbeFailed(s)
                 \/ \E s \in Sessions : Destroy(s)
                 \/ \E s \in Sessions : Draw(s)
                 \/ \E s \in Sessions, sd \in LateSides : ImageLoads(s, sd)
                 \/ HostScriptEnds

SpecLateLoads == Init /\ [][NextLateLoads]_vars

\* destroy() of built objects one statement at a time, between events
NextTeardown == \/ \E s \in Sessions : ConstructView(s, RebuildParams)
                \/ \E s \in Sessions : ProbeLoaded(s)
                \/ \E s \in Sessions : ProbeFailed(s)
                \/ \E s \in Sessions : DestroyBegins(s)
                \/ \E s \in Sessions : DestroyStep(s)
                \/ \E s \in Sessions : Resize(s)
                \/ \E c \in Targets, d \in WheelDeltas : MouseWheel(c, d)
                \/ HostScriptEnds

SpecTeardown == Init /\ [][NextTeardown]_vars

\* The calls of ViewInputs on each of the two elements of the page
TwoInputs == {[v EXCEPT !.sel = c] : v \in ViewInputs, c \in Containers}

\* the pointer of the events on two containers: where a drag starts and
\* where it moves to
TwoStart == <<0, 0>>

TwoMove == <<5397, 2000>>

\* The two objects of a page with two panoramas
Pair == {1, 2}

\* "new Panorama(sel, params)" on one of the two elements
ConstructTwo(s, Ps) ==
    /\ Idle
    /\ NextSession(s)
    /\ \E in \in TwoInputs : \/ ConstructThrows(s, in)
                             \/ \E params \in Ps : ConstructConfigured(s, in, params)

\* objects on two containers of one page: the calls and the events of the
\* one between those of the other (the touches on the first container)
NextTwo == \/ \E s \in Pair : ConstructTwo(s, RebuildParams)
           \/ \E s \in Sessions : ProbeLoaded(s)
           \/ \E s \in Sessions : ProbeFailed(s)
           \/ \E s \in Sessions : Destroy(s)
           \/ \E s \in Sessions : Draw(s)
           \/ \E s \in Sessions : Zoom(s, 50, FALSE)
           \/ \E s \in Sessions : Resize(s)
           \/ \E c \in Containers : MouseDown(c, TwoStart[1], TwoStart[2])
           \/ \E c \in Containers : MouseMove(c, TwoMove[1], TwoMove[2])
           \/ \E c \in Containers : MouseUp(c)
           \/ \E c \in Containers : MouseWheel(c, 1)
           \/ \E c \in Targets : TouchStart(c, 1, TwoStart[1], TwoStart[2])
           \/ \E c \in Targets : TouchMove(c, 1, TwoMove[1], TwoMove[2])
           \/ \E c \in Targets : TouchEnd(c)
           \/ HostScriptEnds

SpecTwo == Init /\ [][NextTwo]_vars

\* ------------------------------------------- wheel steps as JS Numbers
\* A Number (IEEE 754 double) between 4 and 64 as the pair <<hi, lo>> of
\* value (hi * Limb + lo) * 2^-50, 0 <= lo < Limb: every double of that
\* range is a whole number of these units
Limb == 33554432

\* The Number of a whole count of degrees
Number(n) == <<n * Limb, 0>>

\* The distance between two doubles next to each other at the size of an
\* exact result (53 bits): 2^-50 below 8, 2^-49 below 16, 2^-48 below 32,
\* 2^-47 below 64
ulp(hi) == IF hi >= 32 * Limb THEN 8 ELSE IF hi >= 16 * Limb THEN 4 ELSE IF hi >= 8 * Limb THEN 2 ELSE 1

\* The double nearest to an exact result, the even one of two equally near
roundToNearest(hi, lo) ==
    LET u == ulp(hi)
        r == lo % u
        base == lo - r
        up == 2 * r > u \/ (2 * r = u /\ (base \div u) % 2 = 1)
        lo2 == IF up THEN base + u ELSE base
    IN IF lo2 = Limb THEN <<hi + 1, 0>> ELSE <<hi, lo2>>

\* a + b of two Numbers
plus(a, b) == LET lo == a[2] + b[2] IN roundToNearest(a[1] + b[1] + lo \div Limb, lo % Limb)

\* a - b of two Numbers, a >= b
minus(a, b) == LET lo == a[2] - b[2] + Limb IN roundToNearest(a[1] - b[1] - 1 + lo \div Limb, lo % Limb)

\* a < b of two Numbers
less(a, b) == a[1] < b[1] \/ (a[1] = b[1] /\ a[2] < b[2])

\* The doubles of the literals 6.4 (0x1.999999999999ap+2), 4.1
\* (0x1.0666666666666p+2), 4.5 and 5
FovSteps == {<<214748364, 26843546>>, <<137573171, 6710886>>, <<150994944, 0>>, Number(5)}

\* params with a fovMouseStep that is not a whole number
StepParams == {[DefaultParams EXCEPT !.startZoom = z, !.minFov = 10, !.maxFov = 40, !.fovMouseStep = st] : z \in {0, 100}, st \in FovSteps}

\* mouseWheelHandler on an object whose fov and fovMouseStep are Numbers
mouseWheelHandlerNumbers(r, deltaY) == IF deltaY = 1 THEN (IF less(minus(r.fov, r.fovMouseStep), Number(r.minFov)) THEN r ELSE [r EXCEPT !.fov = minus(@, r.fovMouseStep), !.refreshed = TRUE]) ELSE IF deltaY = -1 THEN (IF less(Number(r.maxFov), plus(r.fov, r.fovMouseStep)) THEN r ELSE [r EXCEPT !.fov = plus(@, r.fovMouseStep), !.refreshed = TRUE]) ELSE r

\* "new Panorama(sel, params)" with params of Ps, the fov kept as a Number
ConstructNumbers(s, Ps) == \E in \in ViewInputs, params \in Ps :
    LET f == CtorChecks(in)
        b == [ConfiguredSession(in, f, params) EXCEPT !.fov = Number(@)]
        d == draw(b)
    IN /\ Idle
       /\ NextSession(s)
       /\ f.check = 0
       /\ sess' = [sess EXCEPT ![s] = IF firstFrameInCtor(b.callback) THEN d.r ELSE b]
       /\ firstDraws' = [firstDraws EXCEPT ![s] = IF firstFrameInCtor(b.callback) /\ d.drawn THEN @ + 1 ELSE @]
       /\ wrappers' = wrappers \cup {<<in.sel, s>>}
       /\ tag' = [tag EXCEPT ![in.sel] = s]
       /\ bindings' = bindings \cup CtorBindings(in.sel, s)
       /\ pending' = pending \cup {Task("probe", s, "none")}
       /\ call' = CallOf(s, in, f, FALSE)
       /\ UNCHANGED <<wheelPlugin, cbCalls, asyncThrown, now, raf>>

\* panorama.zoom(percent) on such an object: Math.round gives a whole
\* number of degrees
ZoomNumbers(s, percent) == LET z == zoomCall(sess[s], percent, FALSE) IN
    /\ Idle
    /\ sess[s].panoramaId
    /\ sess' = [sess EXCEPT ![s] = [z.r EXCEPT !.fov = Number(z.ret), !.refreshed = FALSE]]
    /\ call' = [NoCall EXCEPT !.op = "zoom", !.s = s, !.arg = percent, !.ret = z.ret, !.was = sess[s].fov, !.refreshed = z.r.refreshed]
    /\ UNCHANGED <<tag, bindings, wrappers, wheelPlugin, pending, cbCalls, firstDraws, asyncThrown, now, raf>>

\* One run of the wheel handler with this = c on such an object
WheelNumbers(c, deltaY) == LET p == getPanorama(c) h == mouseWheelHandlerNumbers(sess[p], deltaY) IN
    /\ Idle
    /\ Bound(c, "mousewheel")
    /\ p # 0
    /\ sess' = [sess EXCEPT ![p] = [h EXCEPT !.refreshed = FALSE]]
    /\ call' = [NoCall EXCEPT !.op = "mousewheel", !.s = p, !.in = [NoInput EXCEPT !.sel = c], !.arg = deltaY, !.was = sess[p].fov, !.refreshed = h.refreshed]
    /\ UNCHANGED <<tag, bindings, wrappers, wheelPlugin, pending, cbCalls, firstDraws, asyncThrown, now, raf>>

\* wheel steps and zoom() on the first object of a page, built with a
\* fovMouseStep of FovSteps
NextSteps == \/ ConstructNumbers(1, StepParams)
             \/ ProbeLoaded(1)
             \/ ProbeFailed(1)
             \/ \E percent \in {0, 50, 100} : ZoomNumbers(1, percent)
             \/ \E c \in Targets, d \in {1, -1} : WheelNumbers(c, d)
             \/ HostScriptEnds

SpecSteps == Init /\ [][NextSteps]_vars

\* the animation loop on objects built with the params of LoopParams
NextLoop == \/ \E s \in Sessions : ConstructView(s, LoopParams)
            \/ \E s \in Sessions : ProbeLoaded(s)
            \/ \E s \in Sessions : ProbeFailed(s)
            \/ \E s \in Sessions : Destroy(s)
            \/ \E s \in Sessions : AnimationLoop(s)
            \/ \E s \in Sessions : Tick(s)
            \/ \E d \in TimeSteps : Advance(d)
            \/ HostScriptEnds

SpecLoop == Init /\ [][NextLoop]_vars

\* The loop under the scheduling of the browser: a script of the page
\* ends, and a callback registered with requestAnimationFrame is run
NextLoopFair == \/ \E s \in 1..MaxDragSessions : ConstructView(s, LoopParams)
                \/ \E s \in Sessions : ProbeLoaded(s)
                \/ \E s \in Sessions : ProbeFailed(s)
                \/ \E s \in Sessions : Destroy(s)
                \/ \E s \in Sessions : AnimationLoop(s)
                \/ \E s \in Sessions : Tick(s)
                \/ \E d \in TimeSteps : Advance(d)
                \/ HostScriptEnds

SpecLoopFair == Init /\ [][NextLoopFair]_vars /\ WF_vars(HostScriptEnds) /\ \A s \in Sessions : SF_vars(Tick(s))

\* ================================================================ claims
\* The object passed every check of the constructor and was not destroyed
Built(s) == sess[s].panoramaId

\* Nothing of object s is attached to the page
Unbound(s) == (\A c \in Containers : tag[c] # s) /\ (\A b \in bindings : b[2] # s) /\ (\A w \in wrappers : w[2] # s)

\* C1: a call of the constructor that is valid but for its container
\* holding a session fails with SinglePanoramaPerContainer (thrown when no
\* callback was passed, left to a timer otherwise) and changes neither the
\* tag, the bound handlers, the wrappers nor the session that holds the
\* container; the timer that delivers the error, with the destroy() of the
\* failed instance that follows, changes none of them either.
C1_OccupiedContainerKeepsSession == [][
    /\ (Idle /\ call'.op = "new" /\ call'.in \in ValidInputs /\ call'.occ # 0) =>
          /\ call'.err = "SinglePanoramaPerContainer"
          /\ call'.thrown = ~CallbackPassed(call'.in)
          /\ (~call'.thrown => Task("errTimer", call'.s, "SinglePanoramaPerContainer") \in pending')
          /\ tag' = tag /\ bindings' = bindings /\ wrappers' = wrappers
          /\ sess'[call'.occ] = sess[call'.occ]
    /\ \A t \in pending \ pending' : (t.t = "errTimer" /\ t.err = "SinglePanoramaPerContainer") =>
          /\ cbCalls'[t.s] = <<"SinglePanoramaPerContainer">>
          /\ tag' = tag /\ bindings' = bindings /\ wrappers' = wrappers
          /\ \A u \in Sessions \ {t.s} : sess'[u] = sess[u]
    ]_vars

C1_Witness == \E s \in Sessions, t \in Sessions : /\ s # t
                                                  /\ cbCalls[t] = <<"SinglePanoramaPerContainer">>
                                                  /\ Built(s) /\ sess[s].container = "c1" /\ tag["c1"] = s
                                                  /\ CtorBindings("c1", s) \subseteq bindings
                                                  /\ <<"c1", s>> \in wrappers

C3_FirstFailingCheckReported == call.op = "new" =>
    LET in == call.in
        v == <<~in.plain, Len(in.args) > 1 \/ (Len(in.args) = 1 /\ in.args[1] # "fn"), IF in.src.stNull THEN ~(in.src.code /\ in.src.mask) ELSE in.src.st # SideSet, in.sel \notin Containers, ~in.sized, call.occ # 0>>
        failing == {i \in 1..6 : v[i]}
        first == IF failing = {} THEN 0 ELSE CHOOSE i \in failing : \A j \in failing : i <= j
        errs == <<"IncorrectArgument", "IncorrectArgument", IF in.src.stNull THEN "RequiredParameter" ELSE "RequiredSideTexture", "NoContainer", "ContainerZeroSize", "SinglePanoramaPerContainer">>
    IN /\ call.check = first
       /\ first = 0 => (call.err = "none" /\ ~call.thrown)
       /\ first # 0 => /\ call.err = errs[first]
                       /\ \/ call.thrown /\ call.s = 0
                          \/ ~call.thrown /\ call.s # 0 /\ {t \in pending : t.s = call.s} = {Task("errTimer", call.s, errs[first])}
                       /\ call.s # 0 => (Unbound(call.s) /\ ~Built(call.s) /\ ~sess[call.s].wrapper /\ ~sess[call.s].camera)
                       /\ call.occ # 0 => tag[in.sel] = call.occ

C3_Witness == /\ call.op = "new" /\ call.check = 3 /\ call.err = "RequiredParameter"
              /\ ~call.in.sized /\ call.occ # 0 /\ ~call.thrown

\* C4: once params and the arguments are accepted, a sideTextures object
\* fails with RequiredSideTexture exactly when one of the six sides is
\* missing, the error naming the first missing side, whatever panoramaCode
\* and imgPathMask are; a null sideTextures fails with RequiredParameter
\* exactly when panoramaCode or imgPathMask is null; six sides and a
\* sized, free container give a built, tagged session.
C4_SourceCompleteness == (call.op = "new" /\ call.in.plain /\ call.in.args \in {<< >>, <<"fn">>}) =>
    LET src == call.in.src
        missing == {i \in 1..6 : sides[i] \notin src.st}
    IN /\ ~src.stNull => /\ (call.err = "RequiredSideTexture") = (missing # {})
                         /\ call.err # "RequiredParameter"
                         /\ missing # {} => \E i \in missing : call.side = sides[i] /\ \A j \in missing : i <= j
       /\ src.stNull => /\ (call.err = "RequiredParameter") = (~src.code \/ ~src.mask)
                        /\ call.err # "RequiredSideTexture"
       /\ (~src.stNull /\ missing = {} /\ call.in.sel \in Containers /\ call.in.sized /\ call.occ = 0) =>
             (call.err = "none" /\ call.s # 0 /\ Built(call.s) /\ tag[call.in.sel] = call.s)

C4_Witness == /\ call.op = "new" /\ call.err = "RequiredSideTexture" /\ call.side = "left"
              /\ call.in.src.st = SideSet \ {"left", "back"} /\ call.in.src.code /\ call.in.src.mask

\* C5: a failed call that passed a callback throws nothing to the caller,
\* the error being left to a timer that calls the callback; and the load
\* error of a required wheel plugin is never thrown from the errback of an
\* object that was given a callback.
C5_ErrorsGoToCallback ==
    /\ (call.op = "new" /\ CallbackPassed(call.in) /\ call.check # 0) =>
          (~call.thrown /\ call.s # 0 /\ Task("errTimer", call.s, call.err) \in pending)
    /\ \A s \in Sessions : sess[s].cbGiven => "LoadError" \notin asyncThrown[s]

\* C6: once the callback of an object has been called with an error, the
\* destroy() that follows in the same timer has run to its end: it raised
\* nothing and the object is destroyed, its fields released.
C6_FailedInstanceTornDown == \A s \in Sessions : (cbCalls[s] # << >> /\ cbCalls[s][1] # "null") =>
    (asyncThrown[s] = {} /\ ~sess[s].getter /\ sess[s].container = "undef" /\ ~sess[s].callback /\ Unbound(s))

\* C7: a failed call that passed no callback throws its error to the
\* caller, and no construction error of an object without a callback is
\* thrown later from a deferred step.
C7_ErrorsThrownToCaller ==
    /\ (call.op = "new" /\ ~CallbackPassed(call.in) /\ call.check # 0) => (call.thrown /\ call.s = 0)
    /\ \A s \in Sessions : ~sess[s].cbGiven => "LoadError" \notin asyncThrown[s]

\* C8: once the load error of a required wheel plugin has been reported,
\* thrown or passed to the callback, nothing of the object is attached to
\* the page; when the plugin is missing and not required, the object whose
\* probe has resolved is built, tagged, and has every handler but the
\* wheel handler.
C8_WheelPluginMissing == \A s \in Sessions :
    /\ ("LoadError" \in asyncThrown[s] \/ cbCalls[s] = <<"LoadError">>) => Unbound(s)
    /\ (~wheelPlugin /\ Built(s) /\ ~sess[s].mwr /\ Task("probe", s, "none") \notin pending) =>
          /\ tag[sess[s].container] = s
          /\ {b \in bindings : b[2] = s} = CtorBindings(sess[s].container, s)
          /\ <<sess[s].container, s>> \in wrappers

\* C9: a call that passed a callback leaves that callback to be called:
\* not inside the constructor, at most once, with null only for an object
\* that was built and with an error only for one that failed; when the
\* call ends, a timer or the probe that will call it is pending.
C9_CallbackExactlyOnce ==
    /\ (call.op = "new" /\ CallbackPassed(call.in)) =>
          /\ call.s # 0
          /\ cbCalls[call.s] = << >>
          /\ \E t \in pending : t.s = call.s
    /\ \A s \in Sessions :
          /\ Len(cbCalls[s]) <= 1
          /\ (cbCalls[s] # << >>) => sess[s].cbGiven
          /\ (cbCalls[s] = <<"null">>) => (firstDraws[s] = 1)
          /\ (sess[s].cbGiven /\ Task("errTimer", s, "LoadError") \in pending) => (cbCalls[s] = << >>)

\* C10: no object draws two first frames; a built object without a
\* callback has drawn its first frame when the constructor returns; one
\* with a callback has drawn none while the probe is pending and has drawn
\* it when the probe has resolved on the live object, before the timer of
\* the callback is set, so before the callback is called with null.
C10_OneFirstFrame ==
    /\ \A s \in Sessions : firstDraws[s] <= 1
    /\ (call.op = "new" /\ call.check = 0) => (firstDraws[call.s] = (IF CallbackPassed(call.in) THEN 0 ELSE 1))
    /\ \A s \in Sessions :
          /\ (Built(s) /\ ~sess[s].cbGiven) => (firstDraws[s] = 1)
          /\ (sess[s].cbGiven /\ Task("probe", s, "none") \in pending) => (firstDraws[s] = 0)
          /\ (Built(s) /\ sess[s].cbGiven /\ Task("probe", s, "none") \notin pending /\ (wheelPlugin \/ ~sess[s].mwr)) => (firstDraws[s] = 1)
          /\ (Task("okTimer", s, "none") \in pending) => (firstDraws[s] = 1)
          /\ (cbCalls[s] = <<"null">>) => (firstDraws[s] = 1)

C10_Witness == \E s \in Sessions : ~wheelPlugin /\ cbCalls[s] = <<"null">> /\ firstDraws[s] = 1 /\ Built(s)

\* A call with a sized, free container, params holding only sideTextures
\* with the six sides, and no callback
EndToEndCall == /\ call.op = "new" /\ call.in.sel \in Containers /\ call.in.sized /\ call.in.plain
                /\ call.in.args = << >> /\ call.in.src = ValidSource /\ call.occ = 0

\* C11 (as claimed): the end-to-end call succeeds without throwing and
\* the one frame its constructor drew was drawn with fov 75, longitude 90
\* and latitude 0.
C11_EndToEndAsClaimed == (EndToEndCall /\ ~sess[call.s].mwr) =>
    /\ call.check = 0 /\ ~call.thrown /\ call.s # 0
    /\ firstDraws[call.s] = 1
    /\ sess[call.s].fov = 75 /\ sess[call.s].lon = 9000 /\ sess[call.s].lat = 0

\* C11 (amended): the end-to-end call succeeds without throwing and the
\* one frame its constructor drew was drawn with fov 75, latitude 0 and
\* longitude 90.1: the start value 90 advanced by the 0.1 of that draw.
C11_EndToEnd == (EndToEndCall /\ ~sess[call.s].mwr) =>
    /\ call.check = 0 /\ ~call.thrown /\ call.s # 0
    /\ firstDraws[call.s] = 1
    /\ Built(call.s) /\ tag[call.in.sel] = call.s
    /\ sess[call.s].fov = 75 /\ sess[call.s].lon = 9010 /\ sess[call.s].lat = 0

C11_Witness == EndToEndCall /\ call.s # 0 /\ ~sess[call.s].mwr /\ firstDraws[call.s] = 1 /\ sess[call.s].lon = StartLon + LonStep

\* The page's call of zoom(percent) or zoom(percent, true) has returned
ZoomReturned == call.op \in {"zoom", "zoomCalculate"} /\ call.err = "none"

\* C12: on an object with minFov <= maxFov, zoom(p) returns
\* round(minFov + (100 - p) / 100 * (maxFov - minFov)) for p in 0..100,
\* maxFov for p = 0 and minFov for p = 100, no more than it returns for
\* any smaller percent, and for a percent outside 0..100 what it returns
\* for the nearer of 0 and 100.
C12_ZoomFormula == ZoomReturned =>
    LET lo == sess[call.s].minFov
        hi == sess[call.s].maxFov
        p == call.arg
    IN /\ lo <= hi
       /\ p \in 0..100 => call.ret = (2 * (100 * lo + (100 - p) * (hi - lo)) + 100) \div 200
       /\ p = 0 => call.ret = hi
       /\ p = 100 => call.ret = lo
       /\ \A q \in Percents : q <= p => zoom(q, lo, hi) >= call.ret
       /\ p < 0 => call.ret = zoom(0, lo, hi)
       /\ p > 100 => call.ret = zoom(100, lo, hi)
       /\ call.ret \in lo..hi

C12_Witness == /\ ZoomReturned /\ call.arg = 90 /\ call.ret = 17
               /\ sess[call.s].minFov = 10 /\ sess[call.s].maxFov = 75

\* C13: the fov of the camera of an object that passed every check and is
\* not destroyed lies between minFov and maxFov of its params, whatever
\* calls of zoom() and wheel events came before.
C13_FovInRange == \A s \in Sessions : Built(s) => (sess[s].minFov <= sess[s].fov /\ sess[s].fov <= sess[s].maxFov)

C13_Witness == /\ call.op = "mousewheel" /\ call.s # 0 /\ call.arg = 1
               /\ sess[call.s].fov = call.was /\ call.was > sess[call.s].minFov
               /\ call.was - sess[call.s].fovMouseStep < sess[call.s].minFov

\* The wheel handler has run on an object
WheelHandled == call.op = "mousewheel" /\ call.s # 0

\* C14 (as claimed): a wheel event with deltaY = 1 (the direction that
\* decreases the fov) at fov = maxFov leaves the fov unchanged, and one
\* with deltaY = -1 (the direction that increases it) at fov = minFov
\* leaves it unchanged.
C14_WheelBoundAsClaimed == WheelHandled =>
    /\ (call.was = sess[call.s].maxFov /\ call.arg = 1) => sess[call.s].fov = call.was
    /\ (call.was = sess[call.s].minFov /\ call.arg = -1) => sess[call.s].fov = call.was

\* C14 (amended): a wheel event with deltaY = 1 (the direction that
\* decreases the fov) at fov = minFov leaves the fov unchanged, and one
\* with deltaY = -1 (the direction that increases it) at fov = maxFov
\* leaves it unchanged.
C14_WheelBound == WheelHandled =>
    /\ (call.was = sess[call.s].minFov /\ call.arg = 1) => sess[call.s].fov = call.was
    /\ (call.was = sess[call.s].maxFov /\ call.arg = -1) => sess[call.s].fov = call.was

C14_Witness == /\ WheelHandled /\ call.arg = 1 /\ call.was = sess[call.s].minFov
               /\ sess[call.s].minFov + sess[call.s].fovMouseStep <= sess[call.s].maxFov
               /\ sess[call.s].fov = call.was

\* The call or tick that has just run rendered a frame of object call.s
FrameDrawn == \/ call.op \in {"draw", "tick"} /\ call.drawn
              \/ call.op = "new" /\ call.check = 0 /\ firstDraws[call.s] = 1

\* C15: the latitude a draw used for the look-at target, which is the
\* one it has stored when it returns, lies in [-85, 85], whatever drag
\* starts, moves and ends came before.
C15_LatitudeClamped == FrameDrawn => (sess[call.s].lat >= -8500 /\ sess[call.s].lat <= 8500)

C15_Witness == /\ call.op = "draw" /\ call.drawn /\ sess[call.s].holdByUser
               /\ sess[call.s].lat = 8500 /\ sess[call.s].mouseDownState.set

\* C16: the longitude a draw used for the look-at target lies in
\* [0, 360), whatever drag moves and auto-advances came before.
C16_LongitudeWrapped == FrameDrawn => (sess[call.s].lon >= 0 /\ sess[call.s].lon < 36000)

\* C17: a draw that advances the longitude (holdByUser is false) to 360
\* or more stores and uses exactly 0; one that advances it to less than
\* 360 stores and uses the longitude it had plus 0.1, so every such draw
\* is one step nearer to the reset.
C17_LongitudeReset == (call.op \in {"draw", "tick"} /\ call.drawn /\ ~sess[call.s].holdByUser) =>
    /\ (call.lonWas + 10 >= 36000) => sess[call.s].lon = 0
    /\ (call.lonWas + 10 < 36000) => sess[call.s].lon = call.lonWas + 10

C17_Witness == /\ call.op = "draw" /\ call.drawn /\ ~sess[call.s].holdByUser
               /\ call.lonWas = 35995 /\ sess[call.s].lon = 0

EventOps == {"mousedown", "mousemove", "mouseup", "mousewheel", "touchstart", "touchmove", "touchend"}

\* C18: a mouse, touch or wheel handler that runs on a container whose
\* object was destroyed, the container having no tag, raises
\* HandlerCannotFoundThePanorama and changes no object, no tag, no
\* binding and no wrapper.
C18_StaleEventRaises == [][
    (Idle /\ call'.op \in EventOps /\ tag[call'.in.sel] = 0 /\ \E s \in Sessions : sess[s].made /\ ~sess[s].getter /\ sess[s].site = call'.in.sel) =>
        /\ call'.thrown /\ call'.err = "HandlerCannotFoundThePanorama"
        /\ sess' = sess /\ tag' = tag /\ bindings' = bindings /\ wrappers' = wrappers
    ]_vars

C18_Witness == /\ call.op = "touchstart" /\ call.thrown /\ call.err = "HandlerCannotFoundThePanorama"
               /\ tag[call.in.sel] = 0
               /\ \E s \in Sessions : sess[s].made /\ ~sess[s].getter /\ sess[s].site = call.in.sel /\ sess[s].drawCalls > 0

\* destroy() has run to its end on object s
Destroyed(s) == sess[s].made /\ ~sess[s].getter

\* C19: a tick of the animation loop of an object on which destroy() has
\* run to its end draws nothing, changes no object and registers no next
\* tick: the callbacks registered for the object are one fewer after it,
\* so that they run out.
C19_NoDrawAfterDestroy == [][
    (Idle /\ call'.op = "tick" /\ Destroyed(call'.s)) =>
        /\ ~call'.drawn /\ ~call'.thrown
        /\ sess' = sess /\ firstDraws' = firstDraws
        /\ raf'[call'.s] = raf[call'.s] - 1
        /\ \A t \in Sessions \ {call'.s} : raf'[t] = raf[t]
    ]_vars

C19_Witness == /\ call.op = "tick" /\ Destroyed(call.s) /\ raf[call.s] = 0
               /\ call.arg >= 40 /\ ~call.drawn

\* C20: a tick of the animation loop of a live object draws exactly when
\* (time of the tick - lastAnimationUpdate) >= 1000 / fpsLimit; a tick
\* that draws sets lastAnimationUpdate to its time, one that does not
\* draw changes nothing of the object; so a tick that draws is at least
\* 1000 / fpsLimit after the tick that drew before it, also with two
\* loops started on the object, and every tick registers the next.
C20_FrameRateGate == [][
    (Idle /\ call'.op = "tick" /\ Built(call'.s)) =>
        LET r == sess[call'.s] IN
        /\ call'.arg = now
        /\ call'.drawn = ((now - r.lastAnimationUpdate) * r.fpsLimit >= 1000)
        /\ call'.drawn => sess'[call'.s] = [r EXCEPT !.lon = sess'[call'.s].lon, !.lastAnimationUpdate = now]
        /\ ~call'.drawn => sess'[call'.s] = r
        /\ raf' = raf
    ]_vars

C20_Witness == /\ call.op = "tick" /\ Built(call.s) /\ ~call.drawn /\ raf[call.s] = 2
               /\ sess[call.s].lastAnimationUpdate = call.arg /\ call.arg > 0

\* ------------------------------------------------------------------ C21
\* The step is destroy() called on a live object
DestroysLive == Idle /\ call'.op = "destroy" /\ Built(call'.s)

\* The step is a construction with a valid config on a container that an
\* object was destroyed on and that holds no object
Rebuilds == /\ Idle /\ call'.op = "new" /\ call'.in \in ViewInputs /\ call'.occ = 0
            /\ \E t \in Sessions : Destroyed(t) /\ sess[t].site = call'.in.sel

\* What destroy() of a live object leaves: no handler of the object on the
\* container or the window, no wrapper, no tag, the object dead
Detached(s) == /\ ~call'.thrown
               /\ \A b \in bindings' : b[2] # s
               /\ \A w \in wrappers' : w[2] # s
               /\ \A c \in Containers : tag'[c] # s
               /\ ~sess'[s].getter /\ ~sess'[s].panoramaId

\* What the construction leaves but for the longitude: the object is
\* built, tagged and bound alone, with latitude 0, no hold, no reference
\* and the fov of startZoom
RebuiltBut(lon) == LET s == call'.s c == call'.in.sel IN
    /\ call'.check = 0 /\ ~call'.thrown /\ s # 0
    /\ tag'[c] = s /\ wrappers' = {<<c, s>>} /\ bindings' = CtorBindings(c, s)
    /\ sess'[s].panoramaId /\ sess'[s].getter /\ sess'[s].camera
    /\ sess'[s].lon = lon /\ sess'[s].lat = StartLat /\ ~sess'[s].holdByUser
    /\ sess'[s].mouseDownState = NoRef /\ sess'[s].touchStartState = NoRef
    /\ \E p \in RebuildParams : sess'[s].fov = zoom(p.startZoom, p.minFov, p.maxFov)

\* C21 as claimed: destroy() of a live object detaches it, and the next
\* construction on the container succeeds and yields an object at
\* longitude 90, latitude 0, not held, with the fov of startZoom.
C21_RebuildAsClaimed == [][
    /\ DestroysLive => Detached(call'.s)
    /\ Rebuilds => RebuiltBut(StartLon)
    ]_vars

\* C21 (amended): destroy() of a live object detaches its resize, mouse,
\* touch and wheel handlers, removes the wrapper and clears the tag, so
\* the next construction with a valid config on the container succeeds
\* and yields, whatever the destroyed object was, the object a first
\* construction yields: latitude 0, not held, no reference, the fov of
\* startZoom, and longitude 90.1, the 90 advanced by the first frame the
\* constructor draws when no callback is passed.
C21_Rebuild == [][
    /\ DestroysLive => Detached(call'.s)
    /\ Rebuilds => RebuiltBut(StartLon + LonStep)
    ]_vars

C21_Witness == /\ call.op = "new" /\ call.check = 0 /\ call.s = 2 /\ Destroyed(1)
               /\ sess[1].site = call.in.sel /\ tag[call.in.sel] = 2
               /\ sess[2].lon = StartLon + LonStep /\ ~(\E b \in bindings : b[2] = 1)

\* ------------------------------------------------------------------ C22
\* The fov zoom() computes for the object of the call
Computed(percent) == zoom(percent, sess[call'.s].minFov, sess[call'.s].maxFov)

\* C22: zoom(percent, true) on a live object returns the computed fov and
\* changes no field of any object, the fov of the camera included, and
\* refreshes nothing; the constructor calls it before the camera exists
\* and makes the camera with the fov it returns; zoom(percent) sets the
\* fov of the camera to the value it returns, changes no other field and
\* refreshes the projection.
C22_ZoomModes == [][
    /\ (Idle /\ call'.op = "zoomCalculate" /\ Built(call'.s)) =>
        /\ ~call'.thrown /\ call'.ret = Computed(call'.arg)
        /\ sess' = sess /\ ~call'.refreshed
    /\ (Idle /\ call'.op = "zoom" /\ Built(call'.s)) =>
        /\ ~call'.thrown /\ call'.ret = Computed(call'.arg)
        /\ sess' = [sess EXCEPT ![call'.s].fov = call'.ret] /\ call'.refreshed
    /\ (Idle /\ call'.op = "new" /\ call'.check = 0) =>
        \E p \in ZoomParams : /\ sess'[call'.s].minFov = p.minFov /\ sess'[call'.s].maxFov = p.maxFov
                              /\ sess'[call'.s].fov = zoom(p.startZoom, p.minFov, p.maxFov)
                              /\ sess'[call'.s].camera /\ ~call'.thrown
    ]_vars

C22_Witness == /\ call.op = "zoomCalculate" /\ Built(call.s) /\ ~call.thrown
               /\ call.ret = 17 /\ sess[call.s].fov = 75 /\ call.was = 75

\* ------------------------------------------------------------------ C23
\* C23: a wheel event with deltaY = 1 sets the fov to fov - fovMouseStep
\* when that is not below minFov and leaves it unchanged otherwise; one
\* with deltaY = -1 sets it to fov + fovMouseStep when that is not above
\* maxFov and leaves it unchanged otherwise; a step that would pass a
\* bound does not move the fov to the bound; the projection is refreshed
\* exactly on the steps that change the fov, and no step raises an error.
C23_WheelStep == WheelHandled =>
    LET r == sess[call.s]
        down == call.was - r.fovMouseStep
        up == call.was + r.fovMouseStep
    IN /\ ~call.thrown /\ call.err = "none"
       /\ call.arg = 1 => r.fov = IF down >= r.minFov THEN down ELSE call.was
       /\ call.arg = -1 => r.fov = IF up <= r.maxFov THEN up ELSE call.was
       /\ call.arg \notin {1, -1} => r.fov = call.was
       /\ call.refreshed = (r.fov # call.was)

C23_Witness == /\ WheelHandled /\ call.arg = 1 /\ ~call.refreshed
               /\ sess[call.s].fov = call.was /\ call.was > sess[call.s].minFov
               /\ call.was - sess[call.s].fovMouseStep < sess[call.s].minFov

\* ------------------------------------------------------------------ C24
\* The step is draw() called on a live object
DrawsLive == Idle /\ call'.op = "draw" /\ Built(call'.s)

\* C24: a draw advances the longitude by 0.1 (resetting it to 0 when that
\* reaches 360) exactly when holdByUser is false at the draw; a draw made
\* while holdByUser is true leaves the longitude as it was, short of the
\* reset at 360, and changes the latitude only by clamping it to +-85.
C24_HoldSuppressesAdvance == [][
    DrawsLive =>
        LET r == sess[call'.s] q == sess'[call'.s] IN
        /\ call'.drawn /\ q.holdByUser = r.holdByUser
        /\ ~r.holdByUser => q.lon = IF r.lon + LonStep >= LonWrap THEN 0 ELSE r.lon + LonStep
        /\ r.holdByUser => q.lon = IF r.lon >= LonWrap THEN 0 ELSE r.lon
        /\ q.lat = Clamp(-LatLimit, LatLimit, r.lat)
    ]_vars

C24_Witness == /\ call.op = "draw" /\ call.drawn /\ sess[call.s].holdByUser
               /\ sess[call.s].mouseDownState.set /\ sess[call.s].lon = call.lonWas
               /\ call.latWas > LatLimit /\ sess[call.s].lat = LatLimit

\* ------------------------------------------------------------------ C25
\* C25: draw() on a live object changes its longitude and latitude only:
\* the fov, holdByUser, the two drag references, the params,
\* lastAnimationUpdate and the references of the object are as they were,
\* as are the other objects, the tag of the container, the bound handlers
\* and the wrappers (drawCalls counts the calls).
C25_DrawFrame == [][
    DrawsLive =>
        LET s == call'.s IN
        /\ sess' = [sess EXCEPT ![s].lon = sess'[s].lon, ![s].lat = sess'[s].lat, ![s].drawCalls = sess'[s].drawCalls]
        /\ tag' = tag /\ bindings' = bindings /\ wrappers' = wrappers
        /\ pending' = pending /\ raf' = raf
    ]_vars

C25_Witness == /\ call.op = "draw" /\ call.drawn /\ sess[call.s].holdByUser
               /\ sess[call.s].touchStartState.set /\ sess[call.s].touchStartState.lon = StartLon + LonStep
               /\ call.latWas < -LatLimit /\ sess[call.s].lat = -LatLimit

\* ------------------------------------------------------------------ C26
\* The step is the handler of event ev run on the object it found
Handles(ev) == Idle /\ call'.op = ev /\ call'.s # 0

\* The orientation a move to (x, y) gives with the reference ref
Dragged(q, ref, x, y) == /\ q.lon = (ref.x - x) * DragStep + ref.lon
                         /\ q.lat = (y - ref.y) * DragStep + ref.lat

\* C26: a mouse or single-touch move sets longitude = (reference x -
\* current x) * 0.1 + reference longitude and latitude = (current y -
\* reference y) * 0.1 + reference latitude, the reference being the
\* position and the orientation the start of the drag of the same stream
\* captured; a move made while holdByUser is false or while the stream
\* has no reference leaves both as they were.
C26_DragOrientation == [][
    /\ Handles("mousedown") =>
        sess'[call'.s].mouseDownState = Ref(call'.x, call'.y, sess[call'.s].lon, sess[call'.s].lat)
    /\ (Handles("touchstart") /\ call'.arg = 1) =>
        sess'[call'.s].touchStartState = Ref(call'.x, call'.y, sess[call'.s].lon, sess[call'.s].lat)
    /\ Handles("mousemove") =>
        LET r == sess[call'.s] q == sess'[call'.s] IN
        /\ q.mouseDownState = r.mouseDownState
        /\ IF r.holdByUser /\ r.mouseDownState.set
           THEN Dragged(q, r.mouseDownState, call'.x, call'.y)
           ELSE q.lon = r.lon /\ q.lat = r.lat
    /\ (Handles("touchmove") /\ call'.arg = 1) =>
        LET r == sess[call'.s] q == sess'[call'.s] IN
        /\ q.touchStartState = r.touchStartState
        /\ IF r.holdByUser /\ r.touchStartState.set
           THEN Dragged(q, r.touchStartState, call'.x, call'.y)
           ELSE q.lon = r.lon /\ q.lat = r.lat
    ]_vars

C26_Witness == /\ call.op = "mousemove" /\ call.s # 0 /\ sess[call.s].holdByUser
               /\ sess[call.s].mouseDownState.set /\ sess[call.s].mouseDownState.x # call.x
               /\ Dragged(sess[call.s], sess[call.s].mouseDownState, call.x, call.y)
               /\ sess[call.s].lon # call.lonWas /\ sess[call.s].lat # call.latWas

\* ------------------------------------------------------------------ C27
\* C27: no object has a mouse reference (mouseDownState) and a touch
\* reference (touchStartState) at the same time, whatever the order of
\* the mouse and touch events.
C27_OneReference == \A s \in Sessions : ~(sess[s].mouseDownState.set /\ sess[s].touchStartState.set)

\* ------------------------------------------------------------------ C28
\* The longitude a draw of a released object at longitude lon leaves
Advanced(lon) == IF lon + LonStep >= LonWrap THEN 0 ELSE lon + LonStep

\* C28: a mouseup or a touchend clears the reference of its stream and
\* sets holdByUser to false; holdByUser stays false until a mousedown or
\* a touchstart on the object; and a draw made while it is false advances
\* the longitude by 0.1 (resetting it to 0 at 360). So the first draw
\* after a drag end with no drag start in between auto-advances.
C28_ReleaseResumes == [][
    /\ Handles("mouseup") => sess'[call'.s].mouseDownState = NoRef /\ ~sess'[call'.s].holdByUser
    /\ Handles("touchend") => sess'[call'.s].touchStartState = NoRef /\ ~sess'[call'.s].holdByUser
    /\ \A s \in Sessions : (~sess[s].holdByUser /\ sess'[s].holdByUser) =>
           (call'.s = s /\ call'.op \in {"mousedown", "touchstart"})
    /\ (DrawsLive /\ ~sess[call'.s].holdByUser) =>
           (call'.drawn /\ sess'[call'.s].lon = Advanced(sess[call'.s].lon))
    ]_vars

C28_Witness == /\ call.op = "draw" /\ call.drawn /\ ~sess[call.s].holdByUser
               /\ sess[call.s].mouseDownState = NoRef /\ sess[call.s].touchStartState = NoRef
               /\ call.lonWas # StartLon + LonStep /\ call.lonWas < 0
               /\ sess[call.s].lon = call.lonWas + LonStep

\* ------------------------------------------------------------------ C29
\* C29: a touchstart with a number of touches other than one sets
\* holdByUser to true and changes nothing else of the object: it captures
\* no reference and leaves the longitude and the latitude; a touchmove
\* with a number of touches other than one changes nothing of the object.
C29_MultiTouch == [][
    /\ (Handles("touchstart") /\ call'.arg # 1) =>
           sess' = [sess EXCEPT ![call'.s].holdByUser = TRUE]
    /\ (Handles("touchmove") /\ call'.arg # 1) => sess' = sess
    ]_vars

C29_Witness == /\ call.op = "touchstart" /\ call.s # 0 /\ call.arg = 2
               /\ sess[call.s].holdByUser /\ ~sess[call.s].touchStartState.set
               /\ ~sess[call.s].mouseDownState.set
               /\ sess[call.s].lon = call.lonWas /\ sess[call.s].lat = call.latWas

\* ------------------------------------------------------------------ C30
\* C30: a handler of any kind (mouse down, move, up, touch start, move,
\* end, wheel, and the resize of the window) that runs when no object is
\* associated with the container raises HandlerCannotFoundThePanorama.
C30_EveryHandlerLooksUp ==
    (call.op \in EventOps \cup {"resize"} /\ call.in.sel \in Containers /\ tag[call.in.sel] = 0) =>
        (call.thrown /\ call.err = "HandlerCannotFoundThePanorama")

\* ------------------------------------------------------------------ C31
\* A callback of the loop of object s has just drawn a frame
TickDrew(s) == call.op = "tick" /\ call.s = s /\ call.drawn

\* C31: a tick of the loop of a live object leaves as many callbacks
\* registered as there were, whether it drew or not; the callbacks of an
\* object run out only by ticks of an object that is not live; and, when
\* registered callbacks are run fairly, a live object with a started loop
\* and a frame due draws it, unless it is destroyed first.
C31_LoopKeepsGoing ==
    /\ [][(Idle /\ call'.op = "tick" /\ Built(call'.s)) => raf' = raf]_vars
    /\ [][\A s \in Sessions : (raf[s] > 0 /\ raf'[s] = 0) => (call'.op = "tick" /\ call'.s = s /\ ~Built(s))]_vars
    /\ \A s \in Sessions : (Built(s) /\ raf[s] > 0 /\ frameDue(sess[s], now)) ~> (~Built(s) \/ TickDrew(s))

C31_Witness == /\ call.op = "tick" /\ Built(call.s) /\ ~call.drawn /\ raf[call.s] = 1
               /\ sess[call.s].lastAnimationUpdate > 0 /\ call.arg > sess[call.s].lastAnimationUpdate

\* ------------------------------------------------------------------ C32
\* destroy() of object s is running and has changed the page: a handler
\* is unbound or the wrapper is removed
PartlyTornDown(s) == /\ call.op = "destroying" /\ call.s = s
                     /\ \/ CtorBindings(call.in.sel, s) \ bindings # {}
                        \/ <<call.in.sel, s>> \notin wrappers

\* C32: in no state within destroy() is the container still tagged with
\* the object while a handler of the object is already unbound or its
\* wrapper already removed: the tag is cleared before any other step.
C32_TagClearedFirst == \A s \in Sessions : PartlyTornDown(s) => tag[call.in.sel] # s

\* ------------------------------------------------------------------ C33
\* The step runs a deferred task (the probe of the wheel plugin or a
\* timer) of an object that was built and then destroyed
DeferredAfterDestroy(s) == /\ Destroyed(s) /\ sess[s].site # "undef"
                           /\ \E t \in pending \ pending' : t.s = s

\* C33: a deferred step of an object that runs after destroy() of the
\* object binds no handler, draws nothing, writes no state of any object,
\* calls no callback and raises no error.
C33_DeferredGuarded == [][
    \A s \in Sessions : DeferredAfterDestroy(s) =>
        /\ bindings' = bindings /\ sess' = sess /\ firstDraws' = firstDraws
        /\ cbCalls' = cbCalls /\ asyncThrown' = asyncThrown
    ]_vars

\* ------------------------------------------------------------------ C34
\* The step is the end of the load of the image of side sd of object s
LoadEnds(s, sd) == sd \in sess[s].loading /\ sess'[s].loading = sess[s].loading \ {sd}

\* The textures of an object whose loads left are those of the sides L,
\* when no load failed
TexturesWhenLeft(L) == [sd \in SideSet |-> IF sd \in L THEN "placeholder" ELSE "image"]

\* C34: the constructor leaves the six textures on the placeholder; the
\* end of the load of a side changes the texture of that side to the
\* image and nothing else of any object; no texture goes back from the
\* image; the textures are a function of the set of loads that ended,
\* whatever their order and the draws and drags between them, so they are
\* the six images when all ended; and every draw of the live object
\* draws, whatever the textures are, and leaves them.
C34_IndependentLoads == [][
    /\ (Idle /\ call'.op = "new" /\ call'.check = 0) =>
           (sess'[call'.s].textures = TexturesWhenLeft(SideSet) /\ sess'[call'.s].loading = SideSet)
    /\ \A s \in Sessions, sd \in SideSet :
           /\ LoadEnds(s, sd) => /\ sess[s].textures[sd] = "placeholder"
                                 /\ sess' = [sess EXCEPT ![s].textures[sd] = "image", ![s].loading = @ \ {sd}]
                                 /\ tag' = tag /\ bindings' = bindings /\ wrappers' = wrappers
           /\ sess[s].textures[sd] = "image" => sess'[s].textures[sd] = "image"
    /\ \A s \in Sessions : sess'[s].panoramaId => sess'[s].textures = TexturesWhenLeft(sess'[s].loading)
    /\ DrawsLive => (call'.drawn /\ ~call'.thrown /\ sess'[call'.s].textures = sess[call'.s].textures)
    ]_vars

C34_Witness == /\ call.op = "draw" /\ call.drawn /\ sess[call.s].holdByUser
               /\ sess[call.s].loading = {"right", "top"}
               /\ sess[call.s].textures = TexturesWhenLeft({"right", "top"})
               /\ sess[call.s].lon # StartLon + LonStep

\* ------------------------------------------------------------------ C35
\* The load of the image of side sd of object s has failed
LoadFailed(s, sd) == sess[s].textures[sd] = "placeholder" /\ sd \notin sess[s].loading

\* C35: the failure of the load of a side changes nothing but the set of
\* loads in flight: the texture stays on the placeholder, for good, and
\* no load is started again; no error is raised and none is passed to the
\* callback, which is called with null; the object stays built and every
\* draw of it draws.
C35_FailedLoadSilent == [][
    /\ \A s \in Sessions, sd \in SideSet :
           /\ (LoadEnds(s, sd) /\ sess'[s].textures[sd] = "placeholder") =>
                  /\ sess' = [sess EXCEPT ![s].loading = @ \ {sd}]
                  /\ pending' = pending /\ cbCalls' = cbCalls /\ asyncThrown' = asyncThrown
                  /\ tag' = tag /\ bindings' = bindings /\ wrappers' = wrappers
           /\ LoadFailed(s, sd) => (sess'[s].textures[sd] = "placeholder" /\ sd \notin sess'[s].loading)
    /\ \A s \in Sessions :
           /\ asyncThrown'[s] = {}
           /\ cbCalls'[s] # cbCalls[s] => cbCalls'[s] = Append(cbCalls[s], "null")
           /\ Built(s) => sess'[s].panoramaId
    /\ DrawsLive => (call'.drawn /\ ~call'.thrown)
    ]_vars

C35_Witness == /\ call.op = "draw" /\ call.drawn /\ cbCalls[call.s] = <<"null">>
               /\ LoadFailed(call.s, "front") /\ LoadFailed(call.s, "left")
               /\ sess[call.s].textures["top"] = "image" /\ "right" \in sess[call.s].loading
               /\ asyncThrown[call.s] = {}

\* ------------------------------------------------------------------ C36
\* C36: the load handler of an image of a destroyed object raises no
\* error and changes the texture it holds and nothing else: no field of
\* the destroyed object, no other object, no tag, binding or wrapper of
\* the container, no pending task.
C36_LateLoadIgnorable == [][
    (Idle /\ call'.op = "load" /\ Destroyed(call'.s)) =>
        LET s == call'.s sd == call'.side IN
        /\ ~call'.thrown /\ asyncThrown' = asyncThrown
        /\ sess' = [sess EXCEPT ![s].textures[sd] = "image", ![s].loading = @ \ {sd}]
        /\ ~sess'[s].getter /\ ~sess'[s].camera /\ sess'[s].container = "undef"
        /\ tag' = tag /\ bindings' = bindings /\ wrappers' = wrappers
        /\ pending' = pending /\ firstDraws' = firstDraws /\ cbCalls' = cbCalls
    ]_vars

C36_Witness == /\ call.op = "load" /\ call.s = 1 /\ Destroyed(1) /\ call.side = "front"
               /\ sess[1].textures["front"] = "image" /\ asyncThrown[1] = {}
               /\ Built(2) /\ tag[sess[2].container] = 2
               /\ sess[2].textures = TexturesWhenLeft(SideSet)

\* ------------------------------------------------------------------ C37
\* Two object records have the same orientation
SameView(a, b) == a.lon = b.lon /\ a.lat = b.lat

\* The moves of one stream, ev being its move event and ref its reference,
\* from the object record r: a move to q gives the orientation of the
\* formula, also after a move to p, after a move to p and a draw, and
\* after a move to q; a move to the place of the start restores the
\* orientation of the start.
PathFree(ev, r, ref) == \A p \in Points, q \in Points :
    LET once == handler(ev, r, 1, q[1], q[2])
        via == handler(ev, r, 1, p[1], p[2])
        back == handler(ev, via, 1, ref.x, ref.y)
    IN /\ Dragged(once, ref, q[1], q[2])
       /\ SameView(handler(ev, via, 1, q[1], q[2]), once)
       /\ SameView(handler(ev, draw(via).r, 1, q[1], q[2]), once)
       /\ SameView(handler(ev, once, 1, q[1], q[2]), once)
       /\ back.lon = ref.lon /\ back.lat = ref.lat

\* C37: in every state of a drag of one stream (the object held, the
\* reference of the stream present, none of the other stream), the
\* orientation after a move to (x, y) is a function of the reference and
\* of (x, y): it does not depend on the moves and draws made before, a
\* second move to the same place changes nothing, and a move to the place
\* of the start gives the longitude and the latitude of the start.
C37_DragPathFree == \A s \in Sessions : LET r == sess[s] IN
    /\ (Built(s) /\ r.holdByUser /\ r.mouseDownState.set /\ ~r.touchStartState.set) =>
           PathFree("mousemove", r, r.mouseDownState)
    /\ (Built(s) /\ r.holdByUser /\ r.touchStartState.set /\ ~r.mouseDownState.set) =>
           PathFree("touchmove", r, r.touchStartState)

C37_Witness == /\ call.op = "mousemove" /\ call.s # 0 /\ sess[call.s].holdByUser
               /\ sess[call.s].mouseDownState.set /\ ~sess[call.s].touchStartState.set
               /\ call.x = sess[call.s].mouseDownState.x /\ call.y = sess[call.s].mouseDownState.y
               /\ sess[call.s].lon = sess[call.s].mouseDownState.lon /\ call.lonWas # sess[call.s].lon
               /\ sess[call.s].lat = sess[call.s].mouseDownState.lat /\ call.latWas # sess[call.s].lat

\* ------------------------------------------------------------------ C38
\* C38: in every state of a live object, a drag reference that is present
\* (mouseDownState or touchStartState) implies that holdByUser is true.
C38_ReferenceImpliesHold == \A s \in Sessions :
    (Built(s) /\ (sess[s].mouseDownState.set \/ sess[s].touchStartState.set)) =>
        sess[s].holdByUser

\* ------------------------------------------------------------------ C39
\* The step reports an event on a container other than c, or a zoom, a
\* draw or a destroy() of an object made on a container other than c
Elsewhere(c) ==
    /\ Idle
    /\ \/ call'.op \in BoundEvents \cup {"mousewheel"} /\ call'.in.sel \in Containers \ {c}
       \/ /\ call'.op \in {"zoom", "zoomCalculate", "draw", "destroy"}
          /\ call'.s # 0
          /\ sess[call'.s].site \in Containers \ {c}

\* What the page holds for object b: its handlers, its wrapper, the tag
OfSession(b) == [bound |-> {x \in bindings : x[2] = b}, wrapped |-> {w \in wrappers : w[2] = b}, tagged |-> {c \in Containers : tag[c] = b}]

\* C39: an event on a container, and a zoom, a draw or a destroy() of the
\* object of that container, leave every field of a live object of
\* another container (orientation, hold, drag references, fov) as it was,
\* and also its handlers (the resize handler on the window included), its
\* wrapper and the tag of its container.
C39_Isolated == [][\A b \in Sessions :
    (Built(b) /\ tag[sess[b].container] = b /\ Elsewhere(sess[b].container)) =>
        /\ sess'[b] = sess[b]
        /\ OfSession(b)' = OfSession(b)
        /\ CtorBindings(sess[b].container, b) \subseteq bindings']_vars

C39_Witness == \E a \in Sessions, b \in Sessions :
    /\ call.op = "destroy" /\ call.s = a /\ call.err = "none" /\ Unbound(a)
    /\ Built(b) /\ sess[b].container # sess[a].site /\ tag[sess[b].container] = b
    /\ sess[b].holdByUser /\ sess[b].mouseDownState.set
    /\ sess[b].lon # StartLon /\ sess[b].fov # zoom(50, sess[b].minFov, sess[b].maxFov)
    /\ CtorBindings(sess[b].container, b) \cup {<<sess[b].container, b, "mousewheel">>} \subseteq bindings

\* ------------------------------------------------------------------ C40
\* C40: from every fov of a live object within [minFov, maxFov], a wheel
\* step away that changes the fov followed by a wheel step toward gives
\* the fov of the start, and a step toward that changes the fov followed
\* by a step away gives it too.
C40_WheelReversible == \A s \in Sessions : LET r == sess[s] IN
    (Built(s) /\ tag[r.container] = s /\ ~less(r.fov, Number(r.minFov)) /\ ~less(Number(r.maxFov), r.fov)) =>
        \A d \in {1, -1} : LET once == mouseWheelHandlerNumbers(r, d) IN
            once.fov # r.fov => mouseWheelHandlerNumbers(once, -d).fov = r.fov

====
